---- MODULE Spec2Model ----
(***************************************************************************)
(* Model of the "Авто-Копирование" plugin of src/n1panel_parser.py (the    *)
(* second program of that file, lines 132-817): the locale cache, the      *)
(* per-lot worker (process_lot / build_json_for_lot /                      *)
(* get_cached_locale_data), the worker pool and its collecting loop        *)
(* (process_lots_parallel), the run thread (process_profile) and the       *)
(* Telegram handlers (cmd_steal_lots, cmd_cancel, handle_callback,         *)
(* handle_text with its cleanup_callback).                                 *)
(*                                                                         *)
(* Granularity.  A step of a thread runs from one blocking point to the    *)
(* next: a lock acquisition, a remote call (get_user, get_lots,            *)
(* get_lot_page), a sleep, the wait of as_completed and the wait of an     *)
(* executor shutdown are blocking points.  A lock that is taken and        *)
(* released inside one step is never seen held; a lock is seen held only   *)
(* while its owner waits for a second lock.                                *)
(*                                                                         *)
(* Scaling.  MAX_WORKERS, MAX_CACHE_SIZE and CACHE_CLEANUP_THRESHOLD keep  *)
(* the names and the order relations of the source                         *)
(* (MAX_CACHE_SIZE - CACHE_CLEANUP_THRESHOLD < CACHE_CLEANUP_THRESHOLD     *)
(* < MAX_CACHE_SIZE) but are scaled down (8 -> 2, 300 -> 6, 200 -> 4), and *)
(* BATCH_SIZE with them (15 -> 2), so that the states in which they matter *)
(* are reached by a bounded search.                                        *)
(* LOCALE_CACHE_TTL keeps its value; the clock advances by TimeStep.       *)
(***************************************************************************)
EXTENDS Integers, Sequences, FiniteSets, TLC

\* Program constants (src/n1panel_parser.py:164-171); see "Scaling" above.
MAX_WORKERS == 2
LOCALE_CACHE_TTL == 1200
MAX_CACHE_SIZE == 6
CACHE_CLEANUP_THRESHOLD == 4
BATCH_SIZE == 2
PROGRESS_UPDATE_INTERVAL == 1

STATE_WAIT_LINK == "AC_WAIT_LINK"
STATE_PROCESSING == "AC_PROCESSING"

\* Bounds of the model.
NumChats == 1
MaxRuns == 2
NumLots == 3
TimeStep == 600
MaxTicks == 2
MaxProfile == 2

Chats == 1 .. NumChats
\* The chats of two different callers: those of Chats and one more.
Callers == 1 .. NumChats + 1
Runs == 1 .. MaxRuns
LotIds == 1 .. NumLots
Locales == {"ru", "en"}

\* Threads.  Every thread is a triple so that any two can be compared.
NoThread == <<"none", 0, 0>>
W(r, i) == <<"worker", r, i>>
P(r) == <<"process_profile", r, 0>>
T(r) == <<"handle_text", r, 0>>
H(name, c) == <<name, c, 0>>

\* cardinal.account.locale before any run: the language of the account.
AccountLocale == "ru"

\* No handler of src/copy_foreign_lots_plugin.py is running for the user,
\* and none has ended yet.
NoHandler == [name |-> "none", pc |-> "idle", outcome |-> "none"]

VARIABLES
    now,                \* time.time()
    locale_cache,       \* dict in insertion order: Seq of [key, ts]
    cache_hit_stats,    \* locale -> count
    cache_miss_stats,   \* locale -> count
    locale_cache_lock,  \* owner thread, or NoThread
    stats_lock,
    active_users_lock,
    user_data,          \* chat_id -> [step, cancel_event]
    active_tasks,       \* chat_id -> run (the future of its process_profile)
    run_chat,           \* run -> chat_id of the handle_text that made it (0: unused)
    fut,                \* run -> state of the process_profile future
    pp_pc,              \* run -> position of the process_profile thread
    ht_pc,              \* run -> position of the handle_text thread
    cb_pc,              \* run -> position of cleanup_callback
    cb_thread,          \* run -> thread that runs cleanup_callback
    cancel_event,       \* run -> TRUE when process_profile made an Event
    ev_set,             \* run -> Event.is_set()
    lots,               \* run -> balanced_lots, the submission order
    tasks,              \* run -> Seq of per-lot futures of the inner pool
    progress_queue,     \* run -> set of [status, lot_id]
    yielded,            \* run -> indices as_completed has yielded
    output_data,        \* run -> Seq of export records
    success_count,
    error_count,
    completed,
    loop_cancelled,     \* run -> the collecting loop left by a break
    exported,           \* run -> what export_to_json was given (<<>>: nothing sent)
    last_update_time,   \* run -> time of the last progress update that was sent
    progress_update,    \* run -> the last progress update of the loop: the count it
                        \* shows, whether it shows a remaining time, whether the
                        \* edit went through
    stats_pc,           \* chat_id -> the lock a running cmd_stats waits for
    clear_cmd,          \* chat_id -> the cmd_clear_cache of the chat: its position, its
                        \* cache_size_before and the size its last message reported
    notices,            \* chat_id -> kinds of bot.send_message notices sent
    acc_locale,         \* cardinal.account.locale, shared by every worker
    RUNNING,            \* the flag of src/copy_foreign_lots_plugin.py
    tg_state,           \* user -> the input the bot awaits from the user (tg.set_state)
    handlers            \* user -> the handler of that file running for the user

vars == <<now, locale_cache, cache_hit_stats, cache_miss_stats, locale_cache_lock,
          stats_lock, active_users_lock, user_data, active_tasks, run_chat, fut,
          pp_pc, ht_pc, cb_pc, cb_thread, cancel_event, ev_set,
          lots, tasks, progress_queue, yielded, output_data, success_count,
          error_count, completed, loop_cancelled, exported, last_update_time,
          progress_update, stats_pc, clear_cmd, notices, acc_locale, RUNNING, tg_state,
          handlers>>

cacheVars == <<locale_cache, cache_hit_stats, cache_miss_stats>>
pluginVars == <<RUNNING, tg_state, handlers>>
lockVars == <<locale_cache_lock, stats_lock, active_users_lock>>
sessionVars == <<user_data, active_tasks>>
runVars == <<run_chat, fut, pp_pc, ht_pc, cb_pc, cb_thread, cancel_event>>
poolVars == <<lots, tasks, progress_queue>>
loopVars == <<yielded, output_data, success_count, error_count, completed,
              loop_cancelled, exported, last_update_time, progress_update>>

Max(a, b) == IF a >= b THEN a ELSE b

(***************************************************************************)
(* The locale cache.                                                       *)
(***************************************************************************)

\* cache_key = f"{lot_id}_{locale}"
CacheKey(lot_id, locale) == <<lot_id, locale>>

\* Position of a key in the dict, 0 when absent.
CacheIndex(cache, key) ==
    IF \E i \in 1 .. Len(cache) : cache[i].key = key
    THEN CHOOSE i \in 1 .. Len(cache) : cache[i].key = key
    ELSE 0

\* locale_cache[cache_key] = (lot_page, current_time): an existing key keeps
\* its place in the dict, a new key goes last.
CachePut(cache, key, ts) ==
    LET i == CacheIndex(cache, key)
        e == [key |-> key, ts |-> ts]
    IN IF i = 0 THEN Append(cache, e) ELSE [cache EXCEPT ![i] = e]

\* The freshness test with the boundary on the wrong side.
IsFreshInclusive(current_time, timestamp) == current_time - timestamp <= LOCALE_CACHE_TTL

\* get_cached_locale_data line 251: the freshness test of a lookup.
IsFresh(current_time, timestamp) == current_time - timestamp < LOCALE_CACHE_TTL

\* A sort that ignores the timestamps: the entries in the dict's order.
SortedRankByPlace(cache, i) == i - 1

\* Place of entry i in sorted(..., key=timestamp): the sort is stable, so
\* entries of equal timestamp keep the dict's order.  0 is the oldest.
SortedRank(cache, i) ==
    Cardinality({j \in 1 .. Len(cache) :
        \/ cache[j].ts < cache[i].ts
        \/ cache[j].ts = cache[i].ts /\ j < i})

RECURSIVE KeepRanked(_, _, _)
KeepRanked(cache, i, to_remove) ==
    IF i > Len(cache) THEN <<>>
    ELSE IF SortedRank(cache, i) >= to_remove
         THEN <<cache[i]>> \o KeepRanked(cache, i + 1, to_remove)
         ELSE KeepRanked(cache, i + 1, to_remove)

\* A cleanup pass that trims to the capacity instead of the retained size.
ToRemoveToCapacity(cache_size) ==
    Max(0, cache_size - MAX_CACHE_SIZE)

\* Number of entries a cleanup pass removes.
ToRemove(cache_size) ==
    Max(0, cache_size - (MAX_CACHE_SIZE - CACHE_CLEANUP_THRESHOLD))

\* The dict after the body of cleanup_cache (under the lock).
CleanedCache(cache, force) ==
    IF ~force /\ Len(cache) <= CACHE_CLEANUP_THRESHOLD
    THEN cache
    ELSE KeepRanked(cache, 1, ToRemove(Len(cache)))

\* len(locale_cache) > MAX_CACHE_SIZE, the test after an insert.
OverCapacity(cache) == Len(cache) > MAX_CACHE_SIZE

(***************************************************************************)
(* Lots and export records.                                                *)
(***************************************************************************)

\* lot.price of the lots of the modelled profiles (distinct and not in
\* listing order, so that the sort by price reorders them).
LotPrice(lot_id) == (lot_id * 7) % 5

\* lots_with_price.sort(key=price): stable insertion by ascending price.
RECURSIVE InsertByPrice(_, _)
InsertByPrice(sorted, lot_id) ==
    IF sorted = <<>> THEN <<lot_id>>
    ELSE IF LotPrice(Head(sorted)) <= LotPrice(lot_id)
         THEN <<Head(sorted)>> \o InsertByPrice(Tail(sorted), lot_id)
         ELSE <<lot_id>> \o sorted

RECURSIVE SortByPrice(_)
SortByPrice(ls) ==
    IF ls = <<>> THEN <<>>
    ELSE InsertByPrice(SortByPrice(SubSeq(ls, 1, Len(ls) - 1)), ls[Len(ls)])

\* A re-chunking that keeps the full batches only.
RECURSIVE RebatchFullOnly(_, _)
RebatchFullOnly(s, i) ==
    IF i + BATCH_SIZE - 1 > Len(s) THEN <<>>
    ELSE SubSeq(s, i, IF i + BATCH_SIZE - 1 <= Len(s) THEN i + BATCH_SIZE - 1 ELSE Len(s))
         \o RebatchFullOnly(s, i + BATCH_SIZE)

\* for i in range(0, len, BATCH_SIZE): balanced_lots.extend(batch)
RECURSIVE Rebatch(_, _)
Rebatch(s, i) ==
    IF i > Len(s) THEN <<>>
    ELSE SubSeq(s, i, IF i + BATCH_SIZE - 1 <= Len(s) THEN i + BATCH_SIZE - 1 ELSE Len(s))
         \o Rebatch(s, i + BATCH_SIZE)

BalancedLots(ls) == Rebatch(SortByPrice(ls), 1)

\* Text fields left empty when there is no page.
TextOfEmpty(page) == IF page = "page" THEN "text" ELSE ""

\* The text build_json_for_lot takes from a locale's page: the page's own
\* text, or the placeholder "1" when there is no page.
TextOf(page) == IF page = "page" THEN "text" ELSE "1"

\* The dict build_json_for_lot returns (its locale-dependent fields).
ExportRecord(t) ==
    [lot_id |-> t.lot, summary_ru |-> TextOf(t.page_ru), desc_ru |-> TextOf(t.page_ru),
     summary_en |-> TextOf(t.page_en), desc_en |-> TextOf(t.page_en)]

\* A submitted, not yet started future of the inner pool.
NewTask(lot_id) ==
    [lot |-> lot_id, pc |-> "pending", loc |-> "ru", current_time |-> 0,
     page_ru |-> "unset", page_en |-> "unset", result |-> <<>>, status |-> "none",
     orig_locale |-> "unset"]

(***************************************************************************)
(* process_lot, build_json_for_lot and get_cached_locale_data: the worker  *)
(* of lot i of run r.                                                      *)
(***************************************************************************)

\* cancel_event and cancel_event.is_set()
Cancelled(r) == cancel_event[r] /\ ev_set[r]

\* The futures of run r a pool thread is executing.
Active(r) == {i \in 1 .. Len(tasks[r]) :
                 tasks[r][i].pc \notin {"pending", "cancelled", "done"}}

\* A pool that starts one thread too many.
WorkerFreeOneMore(r) == Cardinality(Active(r)) <= MAX_WORKERS

\* ThreadPoolExecutor(max_workers=MAX_WORKERS): a pool thread is free.
WorkerFree(r) == Cardinality(Active(r)) < MAX_WORKERS

Finish(t, status, result) == [t EXCEPT !.pc = "done", !.status = status, !.result = result]

WithPage(t, page) ==
    IF t.loc = "ru" THEN [t EXCEPT !.page_ru = page] ELSE [t EXCEPT !.page_en = page]

\* A build_json_for_lot that checks the token only after the second lookup.
AfterLocaleUncheckedRu(t, cancelled, time, raises) ==
    IF cancelled /\ t.loc = "en" THEN Finish(t, "canceled", <<>>)
    ELSE IF t.loc = "ru"
         THEN [t EXCEPT !.loc = "en", !.current_time = time, !.pc = "lookup"]
         ELSE IF raises THEN Finish(t, "error", <<>>)
              ELSE Finish(t, "success", <<ExportRecord(t)>>)

\* build_json_for_lot after a locale's lookup has returned (and its sleep,
\* if any, has ended): the cancellation check, then the next locale's
\* lookup (which reads the clock) or the record.  Building the record
\* (lines 316-338) may raise, which process_lot reports as an error.
AfterLocale(t, cancelled, time, raises) ==
    IF cancelled THEN Finish(t, "canceled", <<>>)
    ELSE IF t.loc = "ru"
         THEN [t EXCEPT !.loc = "en", !.current_time = time, !.pc = "lookup"]
         ELSE IF raises THEN Finish(t, "error", <<>>)
              ELSE Finish(t, "success", <<ExportRecord(t)>>)

\* progress_queue.append({"status": ..., "lot_id": ...}) of a finished task.
Reported(queue, t) ==
    IF t.pc = "done" THEN queue \cup {[status |-> t.status, lot_id |-> t.lot]} ELSE queue

\* process_lot and build_json_for_lot without their first checks of the token.
StartTaskUnchecked(r, i) ==
    /\ i \in 1 .. Len(tasks[r])
    /\ tasks[r][i].pc = "pending"
    /\ \A j \in 1 .. (i - 1) : tasks[r][j].pc # "pending"
    /\ WorkerFree(r)
    /\ tasks' = [tasks EXCEPT ![r][i] =
                    [@ EXCEPT !.pc = "lookup", !.loc = "ru", !.current_time = now]]
    /\ UNCHANGED <<now, acc_locale, pluginVars, clear_cmd, stats_pc, notices, cacheVars, lockVars, sessionVars, runVars, ev_set,
                   lots, progress_queue, loopVars>>

\* A pool thread takes the next queued future (FIFO) and enters process_lot:
\* the check of line 348, then build_json_for_lot up to the first lock.
StartTask(r, i) ==
    /\ i \in 1 .. Len(tasks[r])
    /\ tasks[r][i].pc = "pending"
    /\ \A j \in 1 .. (i - 1) : tasks[r][j].pc # "pending"
    /\ WorkerFree(r)
    /\ LET t == IF Cancelled(r)
                THEN Finish(tasks[r][i], "canceled", <<>>)
                ELSE [tasks[r][i] EXCEPT !.pc = "lookup", !.loc = "ru", !.current_time = now]
       IN /\ tasks' = [tasks EXCEPT ![r][i] = t]
          /\ progress_queue' = [progress_queue EXCEPT ![r] = Reported(@, t)]
    /\ UNCHANGED <<now, acc_locale, pluginVars, clear_cmd, stats_pc, notices, cacheVars, lockVars, sessionVars, runVars, ev_set,
                   lots, loopVars>>

\* get_cached_locale_data lines 247-257: the lookup under locale_cache_lock.
\* A hit keeps the lock while update_cache_stats waits for stats_lock; a
\* miss saves acc.locale and sets it to the call's locale, without a lock.
Lookup(r, i) ==
    /\ i \in 1 .. Len(tasks[r])
    /\ tasks[r][i].pc = "lookup"
    /\ locale_cache_lock = NoThread
    /\ LET t == tasks[r][i]
           k == CacheIndex(locale_cache, CacheKey(t.lot, t.loc))
           hit == k # 0 /\ IsFresh(t.current_time, locale_cache[k].ts)
       IN IF hit
          THEN /\ tasks' = [tasks EXCEPT ![r][i] = [WithPage(t, "page") EXCEPT !.pc = "hit_stats"]]
               /\ locale_cache_lock' = W(r, i)
               /\ UNCHANGED acc_locale
          ELSE /\ tasks' = [tasks EXCEPT ![r][i] =
                               [@ EXCEPT !.pc = "fetch", !.orig_locale = acc_locale]]
               /\ acc_locale' = t.loc
               /\ UNCHANGED locale_cache_lock
    /\ UNCHANGED <<now, pluginVars, clear_cmd, stats_pc, notices, cacheVars, stats_lock, active_users_lock, sessionVars,
                   runVars, ev_set, lots, progress_queue, loopVars>>

\* A build_json_for_lot that sleeps after a hit as well.
HitStatsThenSleep(r, i, raises) ==
    /\ i \in 1 .. Len(tasks[r])
    /\ tasks[r][i].pc = "hit_stats"
    /\ stats_lock = NoThread
    /\ cache_hit_stats' = [cache_hit_stats EXCEPT ![tasks[r][i].loc] = @ + 1]
    /\ locale_cache_lock' = NoThread
    /\ LET t == [tasks[r][i] EXCEPT !.pc = "sleep"]
       IN /\ tasks' = [tasks EXCEPT ![r][i] = t]
          /\ progress_queue' = [progress_queue EXCEPT ![r] = Reported(@, t)]
    /\ UNCHANGED <<now, acc_locale, pluginVars, clear_cmd, stats_pc, notices, locale_cache, cache_miss_stats, stats_lock, active_users_lock,
                   sessionVars, runVars, ev_set, lots, loopVars>>

\* update_cache_stats(locale, True) inside the lookup's lock, the return of
\* (cached_data, True), and build_json_for_lot going on without a sleep.
HitStats(r, i, raises) ==
    /\ i \in 1 .. Len(tasks[r])
    /\ tasks[r][i].pc = "hit_stats"
    /\ stats_lock = NoThread
    /\ cache_hit_stats' = [cache_hit_stats EXCEPT ![tasks[r][i].loc] = @ + 1]
    /\ locale_cache_lock' = NoThread
    /\ LET t == AfterLocale(tasks[r][i], Cancelled(r), now, raises)
       IN /\ tasks' = [tasks EXCEPT ![r][i] = t]
          /\ progress_queue' = [progress_queue EXCEPT ![r] = Reported(@, t)]
    /\ UNCHANGED <<now, acc_locale, pluginVars, clear_cmd, stats_pc, notices, locale_cache, cache_miss_stats, stats_lock, active_users_lock,
                   sessionVars, runVars, ev_set, lots, loopVars>>

\* A failed fetch whose value is stored like a page.
FetchCachingFailure(r, i, ok) ==
    /\ i \in 1 .. Len(tasks[r])
    /\ tasks[r][i].pc = "fetch"
    /\ tasks' = [tasks EXCEPT ![r][i] =
                    IF ok THEN [WithPage(@, "page") EXCEPT !.pc = "insert"]
                    ELSE [WithPage(@, "none") EXCEPT !.pc = "insert"]]
    /\ UNCHANGED <<now, acc_locale, pluginVars, clear_cmd, stats_pc, notices, cacheVars, lockVars, sessionVars, runVars, ev_set,
                   lots, progress_queue, loopVars>>

\* A fetch that is tried again when it has failed.
FetchRetrying(r, i, ok) ==
    /\ i \in 1 .. Len(tasks[r])
    /\ tasks[r][i].pc = "fetch"
    /\ tasks' = [tasks EXCEPT ![r][i] =
                    IF ok THEN [WithPage(@, "page") EXCEPT !.pc = "insert"]
                    ELSE [WithPage(@, "none") EXCEPT !.pc = "fetch"]]
    /\ UNCHANGED <<now, acc_locale, pluginVars, clear_cmd, stats_pc, notices, cacheVars, lockVars, sessionVars, runVars, ev_set,
                   lots, progress_queue, loopVars>>

\* acc.get_lot_page(lot_id, locale): the remote fetch, which returns a page
\* or raises.
Fetch(r, i, ok) ==
    /\ i \in 1 .. Len(tasks[r])
    /\ tasks[r][i].pc = "fetch"
    /\ tasks' = [tasks EXCEPT ![r][i] =
                    IF ok THEN [WithPage(@, "page") EXCEPT !.pc = "insert"]
                    ELSE [WithPage(@, "none") EXCEPT !.pc = "miss_stats"]]
    /\ UNCHANGED <<now, acc_locale, pluginVars, clear_cmd, stats_pc, notices, cacheVars, lockVars, sessionVars, runVars, ev_set,
                   lots, progress_queue, loopVars>>

\* A miss that does not store the page it fetched.
InsertWithoutStoring(r, i) ==
    /\ i \in 1 .. Len(tasks[r])
    /\ tasks[r][i].pc = "insert"
    /\ locale_cache_lock = NoThread
    /\ LET t == tasks[r][i]
           cache == CachePut(locale_cache, CacheKey(t.lot, t.loc), t.current_time)
       IN /\ locale_cache' = locale_cache
          /\ IF OverCapacity(cache)
             THEN /\ tasks' = [tasks EXCEPT ![r][i].pc = "cleanup"]
                  /\ locale_cache_lock' = W(r, i)
             ELSE /\ tasks' = [tasks EXCEPT ![r][i].pc = "miss_stats"]
                  /\ UNCHANGED locale_cache_lock
    /\ UNCHANGED <<now, acc_locale, pluginVars, clear_cmd, stats_pc, notices, cache_hit_stats, cache_miss_stats, stats_lock, active_users_lock,
                   sessionVars, runVars, ev_set, lots, progress_queue, loopVars>>

\* get_cached_locale_data lines 263-268: the insert under locale_cache_lock,
\* stamped with the time read when the call began.  When the dict is now
\* over capacity the worker calls cleanup_cache with the lock still held.
Insert(r, i) ==
    /\ i \in 1 .. Len(tasks[r])
    /\ tasks[r][i].pc = "insert"
    /\ locale_cache_lock = NoThread
    /\ LET t == tasks[r][i]
           cache == CachePut(locale_cache, CacheKey(t.lot, t.loc), t.current_time)
       IN /\ locale_cache' = cache
          /\ IF OverCapacity(cache)
             THEN /\ tasks' = [tasks EXCEPT ![r][i].pc = "cleanup"]
                  /\ locale_cache_lock' = W(r, i)
             ELSE /\ tasks' = [tasks EXCEPT ![r][i].pc = "miss_stats"]
                  /\ UNCHANGED locale_cache_lock
    /\ UNCHANGED <<now, acc_locale, pluginVars, clear_cmd, stats_pc, notices, cache_hit_stats, cache_miss_stats, stats_lock, active_users_lock,
                   sessionVars, runVars, ev_set, lots, progress_queue, loopVars>>

\* A miss that is not counted once the token is set.
MissStatsUnlessCancelled(r, i) ==
    /\ i \in 1 .. Len(tasks[r])
    /\ tasks[r][i].pc = "miss_stats"
    /\ stats_lock = NoThread
    /\ cache_miss_stats' = [cache_miss_stats EXCEPT ![tasks[r][i].loc] =
                               IF Cancelled(r) THEN @ ELSE @ + 1]
    /\ tasks' = [tasks EXCEPT ![r][i] = [@ EXCEPT !.pc = "sleep", !.orig_locale = "unset"]]
    /\ acc_locale' = tasks[r][i].orig_locale
    /\ UNCHANGED <<now, pluginVars, clear_cmd, stats_pc, notices, locale_cache, cache_hit_stats, lockVars, sessionVars,
                   runVars, ev_set, lots, progress_queue, loopVars>>

\* A miss that is counted as a hit.
MissStatsAsHit(r, i) ==
    /\ i \in 1 .. Len(tasks[r])
    /\ tasks[r][i].pc = "miss_stats"
    /\ stats_lock = NoThread
    /\ cache_hit_stats' = [cache_hit_stats EXCEPT ![tasks[r][i].loc] = @ + 1]
    /\ tasks' = [tasks EXCEPT ![r][i] = [@ EXCEPT !.pc = "sleep", !.orig_locale = "unset"]]
    /\ acc_locale' = tasks[r][i].orig_locale
    /\ UNCHANGED <<now, pluginVars, clear_cmd, stats_pc, notices, locale_cache, cache_miss_stats, lockVars, sessionVars,
                   runVars, ev_set, lots, progress_queue, loopVars>>

\* update_cache_stats(locale, False) and the return of (lot_page, False) or
\* (None, False), whose finally clause writes the saved locale back (lines
\* 276-278); build_json_for_lot then sleeps.
MissStats(r, i) ==
    /\ i \in 1 .. Len(tasks[r])
    /\ tasks[r][i].pc = "miss_stats"
    /\ stats_lock = NoThread
    /\ cache_miss_stats' = [cache_miss_stats EXCEPT ![tasks[r][i].loc] = @ + 1]
    /\ tasks' = [tasks EXCEPT ![r][i] = [@ EXCEPT !.pc = "sleep", !.orig_locale = "unset"]]
    /\ acc_locale' = tasks[r][i].orig_locale
    /\ UNCHANGED <<now, pluginVars, clear_cmd, stats_pc, notices, locale_cache, cache_hit_stats, lockVars, sessionVars,
                   runVars, ev_set, lots, progress_queue, loopVars>>

\* time.sleep(...) ends; build_json_for_lot goes on.
Sleep(r, i, raises) ==
    /\ i \in 1 .. Len(tasks[r])
    /\ tasks[r][i].pc = "sleep"
    /\ LET t == AfterLocale(tasks[r][i], Cancelled(r), now, raises)
       IN /\ tasks' = [tasks EXCEPT ![r][i] = t]
          /\ progress_queue' = [progress_queue EXCEPT ![r] = Reported(@, t)]
    /\ UNCHANGED <<now, acc_locale, pluginVars, clear_cmd, stats_pc, notices, cacheVars, lockVars, sessionVars, runVars, ev_set,
                   lots, loopVars>>

(***************************************************************************)
(* process_profile (the thread of run r) with process_lots_parallel.       *)
(***************************************************************************)

\* bot.send_message(chat_id, ...) of a notice of the given kind.
Notified(c, kind) == [notices EXCEPT ![c] = @ \cup {kind}]

\* dict[key] = value and dict.pop(key, None)
Put(f, k, v) == [x \in DOMAIN f \cup {k} |-> IF x = k THEN v ELSE f[x]]
Pop(f, k) == [x \in DOMAIN f \ {k} |-> f[x]]

\* Future.done()
Done(r) == fut[r] \in {"finished", "cancelled"}

\* An as_completed that yields a finished future again.
ReadyAgain(r) == {i \in 1 .. Len(tasks[r]) : tasks[r][i].pc = "done"}

\* The futures of the inner pool that have finished and that as_completed
\* has not yet yielded.
Ready(r) == {i \in 1 .. Len(tasks[r]) : tasks[r][i].pc = "done" /\ i \notin yielded[r]}

\* f.cancel() for every future that is not done: a queued future is
\* cancelled, a running one is not.
CancelPending(ts) ==
    [i \in 1 .. Len(ts) |-> IF ts[i].pc = "pending" THEN [ts[i] EXCEPT !.pc = "cancelled"] ELSE ts[i]]

\* any(item["status"] == "canceled" and item["lot_id"] == lot.id ...)
ReportedCanceled(queue, lot_id) == [status |-> "canceled", lot_id |-> lot_id] \in queue

\* The progress message as the first edit leaves it (lines 406-412): 0 of
\* total_lots, without a remaining time.
NoUpdate == [completed |-> 0, remaining |-> FALSE, ok |-> TRUE]

\* process_profile returns: its future finishes and runs the callback that
\* is registered by then, in this thread.  The locals of the run (those of
\* process_lots_parallel included) end with it.
ReturnFrom(r) ==
    /\ pp_pc' = [pp_pc EXCEPT ![r] = "returned"]
    /\ fut' = [fut EXCEPT ![r] = "finished"]
    /\ IF cb_pc[r] = "registered"
       THEN /\ cb_pc' = [cb_pc EXCEPT ![r] = "waiting"]
            /\ cb_thread' = [cb_thread EXCEPT ![r] = P(r)]
       ELSE UNCHANGED <<cb_pc, cb_thread>>
    /\ lots' = [lots EXCEPT ![r] = <<>>]
    /\ progress_queue' = [progress_queue EXCEPT ![r] = {}]
    /\ yielded' = [yielded EXCEPT ![r] = {}]
    /\ output_data' = [output_data EXCEPT ![r] = <<>>]
    /\ success_count' = [success_count EXCEPT ![r] = 0]
    /\ error_count' = [error_count EXCEPT ![r] = 0]
    /\ completed' = [completed EXCEPT ![r] = 0]
    /\ loop_cancelled' = [loop_cancelled EXCEPT ![r] = FALSE]
    /\ last_update_time' = [last_update_time EXCEPT ![r] = 0]
    /\ progress_update' = [progress_update EXCEPT ![r] = NoUpdate]

\* The locals ReturnFrom ends, but for the futures of the inner pool.
localVars == <<lots, progress_queue, yielded, output_data, success_count, error_count,
               completed, loop_cancelled, last_update_time, progress_update>>

\* The executor's thread takes the submitted process_profile; a future that
\* was cancelled while queued is not run.
PPRun(r) ==
    /\ pp_pc[r] = "queued"
    /\ IF fut[r] = "cancelled"
       THEN /\ pp_pc' = [pp_pc EXCEPT ![r] = "skipped"]
            /\ UNCHANGED fut
       ELSE /\ pp_pc' = [pp_pc EXCEPT ![r] = "start"]
            /\ fut' = [fut EXCEPT ![r] = "running"]
    /\ UNCHANGED <<now, acc_locale, pluginVars, clear_cmd, stats_pc, notices, cacheVars, lockVars, sessionVars, run_chat, ht_pc, cb_pc, cb_thread,
                   cancel_event, ev_set, poolVars, loopVars>>

\* process_profile lines 550-553: the Event is made and stored only if the
\* caller still has a user_data entry.
PPStart(r) ==
    /\ pp_pc[r] = "start"
    /\ active_users_lock = NoThread
    /\ IF run_chat[r] \in DOMAIN user_data
       THEN /\ cancel_event' = [cancel_event EXCEPT ![r] = TRUE]
            /\ user_data' = [user_data EXCEPT ![run_chat[r]].cancel_event = r]
       ELSE UNCHANGED <<cancel_event, user_data>>
    /\ pp_pc' = [pp_pc EXCEPT ![r] = "get_user"]
    /\ UNCHANGED <<now, acc_locale, pluginVars, clear_cmd, stats_pc, notices, cacheVars, lockVars, active_tasks, run_chat, fut, ht_pc, cb_pc,
                   cb_thread, ev_set, poolVars, loopVars>>

\* cardinal.account.get_user(user_id): the remote call returns a profile or
\* raises (lines 555-563).
PPGetUser(r, ok) ==
    /\ pp_pc[r] = "get_user"
    /\ IF ok
       THEN /\ pp_pc' = [pp_pc EXCEPT ![r] = "get_lots"]
            /\ UNCHANGED <<fut, cb_pc, cb_thread, localVars>>
       ELSE ReturnFrom(r)
    /\ UNCHANGED <<now, acc_locale, pluginVars, clear_cmd, stats_pc, notices, cacheVars, lockVars, sessionVars, run_chat, ht_pc, cancel_event,
                   ev_set, tasks, exported>>

\* profile.get_lots() (lines 566-573) and process_lots_parallel up to its
\* loop (lines 367-415): the list ls is what the remote call returned; an
\* exception, or an empty list with the notice of line 571, ends the run,
\* otherwise every lot is submitted in the order of balanced_lots.
PPGetLots(r, ls, ok) ==
    /\ pp_pc[r] = "get_lots"
    /\ IF ok /\ ls # <<>>
       THEN /\ lots' = [lots EXCEPT ![r] = BalancedLots(ls)]
            /\ tasks' = [tasks EXCEPT ![r] = [i \in 1 .. Len(BalancedLots(ls)) |-> NewTask(BalancedLots(ls)[i])]]
            /\ pp_pc' = [pp_pc EXCEPT ![r] = "collect"]
            /\ last_update_time' = [last_update_time EXCEPT ![r] = now]
            /\ UNCHANGED <<fut, cb_pc, cb_thread, progress_queue, yielded, output_data,
                           success_count, error_count, completed, loop_cancelled,
                           progress_update, notices>>
       ELSE /\ ReturnFrom(r)
            /\ notices' = IF ok THEN Notified(run_chat[r], "no_lots") ELSE notices
            /\ UNCHANGED tasks
    /\ UNCHANGED <<now, acc_locale, pluginVars, clear_cmd, stats_pc, cacheVars, lockVars, sessionVars, run_chat, ht_pc, cancel_event,
                   ev_set, exported>>

\* process_lots_parallel when bot.send_message of line 387 raises: nothing
\* has been submitted, the exception leaves the function and process_profile
\* catches it (lines 588-590).
SendProgressFails(r, ls) ==
    /\ pp_pc[r] = "get_lots"
    /\ ls # <<>>
    /\ lots' = [lots EXCEPT ![r] = BalancedLots(ls)]
    /\ pp_pc' = [pp_pc EXCEPT ![r] = "aborting"]
    /\ UNCHANGED <<now, acc_locale, pluginVars, clear_cmd, stats_pc, notices, cacheVars, lockVars, sessionVars, run_chat, fut,
                   ht_pc, cb_pc, cb_thread, cancel_event, ev_set, tasks, progress_queue,
                   loopVars>>

\* process_lots_parallel when bot.edit_message_text of line 406 raises: every
\* lot has been submitted (lines 396-398) and the exception leaves the
\* "with ThreadPoolExecutor" block, whose exit waits for the futures.
EditProgressFails(r, ls) ==
    /\ pp_pc[r] = "get_lots"
    /\ ls # <<>>
    /\ lots' = [lots EXCEPT ![r] = BalancedLots(ls)]
    /\ tasks' = [tasks EXCEPT ![r] = [i \in 1 .. Len(BalancedLots(ls)) |-> NewTask(BalancedLots(ls)[i])]]
    /\ pp_pc' = [pp_pc EXCEPT ![r] = "aborting"]
    /\ UNCHANGED <<now, acc_locale, pluginVars, clear_cmd, stats_pc, notices, cacheVars, lockVars, sessionVars, run_chat, fut,
                   ht_pc, cb_pc, cb_thread, cancel_event, ev_set, progress_queue, loopVars>>

\* The collecting loop when bot.edit_message_text of line 423 raises: the
\* token is set, the notice is outside the loop's try, and the exception
\* leaves the loop before any future is cancelled (lines 420-428).
CancelNoticeFails(r, i) ==
    /\ pp_pc[r] = "collect"
    /\ i \in Ready(r)
    /\ Cancelled(r)
    /\ pp_pc' = [pp_pc EXCEPT ![r] = "aborting"]
    /\ UNCHANGED <<now, acc_locale, pluginVars, clear_cmd, stats_pc, notices, cacheVars, lockVars, sessionVars, run_chat, fut,
                   ht_pc, cb_pc, cb_thread, cancel_event, ev_set, poolVars, loopVars>>

\* An exception that left process_lots_parallel: the executor's exit has
\* waited for every future, process_profile reports the error (line 590) and
\* returns without export and without cleanup.
AbortReturn(r) ==
    /\ pp_pc[r] = "aborting"
    /\ \A i \in 1 .. Len(tasks[r]) : tasks[r][i].pc \in {"done", "cancelled"}
    /\ ReturnFrom(r)
    /\ tasks' = [tasks EXCEPT ![r] = <<>>]
    /\ notices' = Notified(run_chat[r], "error")
    /\ UNCHANGED <<now, acc_locale, pluginVars, clear_cmd, stats_pc, cacheVars, lockVars, sessionVars, run_chat, ht_pc,
                   cancel_event, ev_set, exported>>

\* A loop that sends an update only when the interval has passed.
UpdateProgressOnInterval(r) ==
    IF /\ completed'[r] # completed[r]
       /\ now - last_update_time[r] >= PROGRESS_UPDATE_INTERVAL
    THEN \E edit_ok \in BOOLEAN :
            /\ progress_update' =
                  [progress_update EXCEPT ![r] =
                      [completed |-> completed'[r],
                       remaining |-> completed'[r] > 0 /\ completed'[r] < Len(tasks[r]),
                       ok |-> edit_ok]]
            /\ last_update_time' = [last_update_time EXCEPT ![r] = IF edit_ok THEN now ELSE @]
    ELSE UNCHANGED <<progress_update, last_update_time>>

\* The end of an iteration that counted an item (lines 459-484): when the
\* interval has passed since last_update_time, or the item is the last one,
\* the progress message is edited, with a remaining time while
\* 0 < completed < total_lots; last_update_time moves only when the edit
\* went through (an exception of the edit is logged, lines 483-484).
UpdateProgress(r) ==
    IF /\ completed'[r] # completed[r]
       /\ \/ now - last_update_time[r] >= PROGRESS_UPDATE_INTERVAL
          \/ completed'[r] = Len(tasks[r])
    THEN \E edit_ok \in BOOLEAN :
            /\ progress_update' =
                  [progress_update EXCEPT ![r] =
                      [completed |-> completed'[r],
                       remaining |-> completed'[r] > 0 /\ completed'[r] < Len(tasks[r]),
                       ok |-> edit_ok]]
            /\ last_update_time' = [last_update_time EXCEPT ![r] = IF edit_ok THEN now ELSE @]
    ELSE UNCHANGED <<progress_update, last_update_time>>

\* A collecting loop that counts the item at which it sees the token set as
\* an error.
CollectCountingCancelled(r, i) ==
    /\ pp_pc[r] = "collect"
    /\ i \in Ready(r)
    /\ LET t == tasks[r][i]
           last == Cardinality(yielded[r]) + 1 = Len(tasks[r])
           next_pc == IF last THEN "shutdown" ELSE "collect"
       IN IF Cancelled(r)
          THEN \* lines 420-434
               /\ tasks' = [tasks EXCEPT ![r] = CancelPending(@)]
               /\ loop_cancelled' = [loop_cancelled EXCEPT ![r] = TRUE]
               /\ pp_pc' = [pp_pc EXCEPT ![r] = "shutdown"]
               /\ error_count' = [error_count EXCEPT ![r] = @ + 1]
               /\ UNCHANGED <<yielded, output_data, success_count, completed>>
          ELSE IF t.result # <<>>
          THEN \* lines 440-442, 457
               /\ output_data' = [output_data EXCEPT ![r] = Append(@, t.result[1])]
               /\ success_count' = [success_count EXCEPT ![r] = @ + 1]
               /\ completed' = [completed EXCEPT ![r] = @ + 1]
               /\ yielded' = [yielded EXCEPT ![r] = @ \cup {i}]
               /\ pp_pc' = [pp_pc EXCEPT ![r] = next_pc]
               /\ UNCHANGED <<tasks, error_count, loop_cancelled>>
          ELSE IF ReportedCanceled(progress_queue[r], t.lot)
          THEN \* lines 445-454
               /\ loop_cancelled' = [loop_cancelled EXCEPT ![r] = TRUE]
               /\ pp_pc' = [pp_pc EXCEPT ![r] = "shutdown"]
               /\ UNCHANGED <<tasks, yielded, output_data, success_count, error_count,
                              completed>>
          ELSE \* lines 456-457
               /\ error_count' = [error_count EXCEPT ![r] = @ + 1]
               /\ completed' = [completed EXCEPT ![r] = @ + 1]
               /\ yielded' = [yielded EXCEPT ![r] = @ \cup {i}]
               /\ pp_pc' = [pp_pc EXCEPT ![r] = next_pc]
               /\ UNCHANGED <<tasks, output_data, success_count, loop_cancelled>>
    /\ UpdateProgress(r)
    /\ UNCHANGED <<now, acc_locale, pluginVars, clear_cmd, stats_pc, notices, cacheVars, lockVars, sessionVars, run_chat, fut, ht_pc, cb_pc,
                   cb_thread, cancel_event, ev_set, lots, progress_queue, exported>>

\* A collecting loop that stops at the first item that failed.
CollectAbortingOnError(r, i) ==
    /\ pp_pc[r] = "collect"
    /\ i \in Ready(r)
    /\ LET t == tasks[r][i]
           last == Cardinality(yielded[r]) + 1 = Len(tasks[r])
           next_pc == IF last THEN "shutdown" ELSE "collect"
       IN IF Cancelled(r)
          THEN \* lines 420-434
               /\ tasks' = [tasks EXCEPT ![r] = CancelPending(@)]
               /\ loop_cancelled' = [loop_cancelled EXCEPT ![r] = TRUE]
               /\ pp_pc' = [pp_pc EXCEPT ![r] = "shutdown"]
               /\ UNCHANGED <<yielded, output_data, success_count, error_count, completed>>
          ELSE IF t.result # <<>>
          THEN \* lines 440-442, 457
               /\ output_data' = [output_data EXCEPT ![r] = Append(@, t.result[1])]
               /\ success_count' = [success_count EXCEPT ![r] = @ + 1]
               /\ completed' = [completed EXCEPT ![r] = @ + 1]
               /\ yielded' = [yielded EXCEPT ![r] = @ \cup {i}]
               /\ pp_pc' = [pp_pc EXCEPT ![r] = next_pc]
               /\ UNCHANGED <<tasks, error_count, loop_cancelled>>
          ELSE IF ReportedCanceled(progress_queue[r], t.lot)
          THEN \* lines 445-454
               /\ loop_cancelled' = [loop_cancelled EXCEPT ![r] = TRUE]
               /\ pp_pc' = [pp_pc EXCEPT ![r] = "shutdown"]
               /\ UNCHANGED <<tasks, yielded, output_data, success_count, error_count,
                              completed>>
          ELSE /\ pp_pc' = [pp_pc EXCEPT ![r] = "shutdown"]
               /\ UNCHANGED <<tasks, yielded, output_data, success_count, error_count,
                              completed, loop_cancelled>>
    /\ UpdateProgress(r)
    /\ UNCHANGED <<now, acc_locale, pluginVars, clear_cmd, stats_pc, notices, cacheVars, lockVars, sessionVars, run_chat, fut, ht_pc, cb_pc,
                   cb_thread, cancel_event, ev_set, lots, progress_queue, exported>>

\* A loop that empties its list when it sees the token.
CollectDiscarding(r, i) ==
    /\ pp_pc[r] = "collect"
    /\ i \in Ready(r)
    /\ LET t == tasks[r][i]
           last == Cardinality(yielded[r]) + 1 = Len(tasks[r])
           next_pc == IF last THEN "shutdown" ELSE "collect"
       IN IF Cancelled(r)
          THEN \* lines 420-434
               /\ tasks' = [tasks EXCEPT ![r] = CancelPending(@)]
               /\ loop_cancelled' = [loop_cancelled EXCEPT ![r] = TRUE]
               /\ pp_pc' = [pp_pc EXCEPT ![r] = "shutdown"]
               /\ output_data' = [output_data EXCEPT ![r] = <<>>]
               /\ UNCHANGED <<yielded, success_count, error_count, completed>>
          ELSE IF t.result # <<>>
          THEN \* lines 440-442, 457
               /\ output_data' = [output_data EXCEPT ![r] = Append(@, t.result[1])]
               /\ success_count' = [success_count EXCEPT ![r] = @ + 1]
               /\ completed' = [completed EXCEPT ![r] = @ + 1]
               /\ yielded' = [yielded EXCEPT ![r] = @ \cup {i}]
               /\ pp_pc' = [pp_pc EXCEPT ![r] = next_pc]
               /\ UNCHANGED <<tasks, error_count, loop_cancelled>>
          ELSE IF ReportedCanceled(progress_queue[r], t.lot)
          THEN \* lines 445-454
               /\ loop_cancelled' = [loop_cancelled EXCEPT ![r] = TRUE]
               /\ pp_pc' = [pp_pc EXCEPT ![r] = "shutdown"]
               /\ UNCHANGED <<tasks, yielded, output_data, success_count, error_count,
                              completed>>
          ELSE \* lines 456-457
               /\ error_count' = [error_count EXCEPT ![r] = @ + 1]
               /\ completed' = [completed EXCEPT ![r] = @ + 1]
               /\ yielded' = [yielded EXCEPT ![r] = @ \cup {i}]
               /\ pp_pc' = [pp_pc EXCEPT ![r] = next_pc]
               /\ UNCHANGED <<tasks, output_data, success_count, loop_cancelled>>
    /\ UpdateProgress(r)
    /\ UNCHANGED <<now, acc_locale, pluginVars, clear_cmd, stats_pc, notices, cacheVars, lockVars, sessionVars, run_chat, fut, ht_pc, cb_pc,
                   cb_thread, cancel_event, ev_set, lots, progress_queue, exported>>

\* One iteration of "for future in as_completed(future_to_lot)" (lines
\* 418-489) on the finished future i.
Collect(r, i) ==
    /\ pp_pc[r] = "collect"
    /\ i \in Ready(r)
    /\ LET t == tasks[r][i]
           last == Cardinality(yielded[r]) + 1 = Len(tasks[r])
           next_pc == IF last THEN "shutdown" ELSE "collect"
       IN IF Cancelled(r)
          THEN \* lines 420-434
               /\ tasks' = [tasks EXCEPT ![r] = CancelPending(@)]
               /\ loop_cancelled' = [loop_cancelled EXCEPT ![r] = TRUE]
               /\ pp_pc' = [pp_pc EXCEPT ![r] = "shutdown"]
               /\ UNCHANGED <<yielded, output_data, success_count, error_count, completed>>
          ELSE IF t.result # <<>>
          THEN \* lines 440-442, 457
               /\ output_data' = [output_data EXCEPT ![r] = Append(@, t.result[1])]
               /\ success_count' = [success_count EXCEPT ![r] = @ + 1]
               /\ completed' = [completed EXCEPT ![r] = @ + 1]
               /\ yielded' = [yielded EXCEPT ![r] = @ \cup {i}]
               /\ pp_pc' = [pp_pc EXCEPT ![r] = next_pc]
               /\ UNCHANGED <<tasks, error_count, loop_cancelled>>
          ELSE IF ReportedCanceled(progress_queue[r], t.lot)
          THEN \* lines 445-454
               /\ loop_cancelled' = [loop_cancelled EXCEPT ![r] = TRUE]
               /\ pp_pc' = [pp_pc EXCEPT ![r] = "shutdown"]
               /\ UNCHANGED <<tasks, yielded, output_data, success_count, error_count,
                              completed>>
          ELSE \* lines 456-457
               /\ error_count' = [error_count EXCEPT ![r] = @ + 1]
               /\ completed' = [completed EXCEPT ![r] = @ + 1]
               /\ yielded' = [yielded EXCEPT ![r] = @ \cup {i}]
               /\ pp_pc' = [pp_pc EXCEPT ![r] = next_pc]
               /\ UNCHANGED <<tasks, output_data, success_count, loop_cancelled>>
    /\ UpdateProgress(r)
    /\ UNCHANGED <<now, acc_locale, pluginVars, clear_cmd, stats_pc, notices, cacheVars, lockVars, sessionVars, run_chat, fut, ht_pc, cb_pc,
                   cb_thread, cancel_event, ev_set, lots, progress_queue, exported>>

\* The numbers of the final message (lines 494-510): that of a cancelled run
\* shows the successes out of the total, that of a completed run the errors
\* as well.
FinalReport(r) ==
    IF Cancelled(r)
    THEN [text |-> "canceled", success |-> success_count[r], total |-> Len(tasks[r])]
    ELSE [text |-> "done", success |-> success_count[r], total |-> Len(tasks[r]),
          errors |-> error_count[r]]

\* The end of "with ThreadPoolExecutor(...)": shutdown(wait=True) returns
\* once every future that was not cancelled has run; then the final message
\* and "return output_data" (lines 491-514).
Shutdown(r) ==
    /\ pp_pc[r] = "shutdown"
    /\ \A i \in 1 .. Len(tasks[r]) : tasks[r][i].pc \in {"done", "cancelled"}
    /\ pp_pc' = [pp_pc EXCEPT ![r] = "export"]
    /\ UNCHANGED <<now, acc_locale, pluginVars, clear_cmd, stats_pc, notices, cacheVars, lockVars, sessionVars, run_chat, fut, ht_pc, cb_pc,
                   cb_thread, cancel_event, ev_set, poolVars, loopVars>>

\* A process_profile that exports whether or not the token is set.
ExportAlways(r) ==
    /\ pp_pc[r] = "export"
    /\ exported' = [exported EXCEPT ![r] = IF output_data[r] # <<>> THEN <<output_data[r]>> ELSE @]
    /\ IF Len(locale_cache) > CACHE_CLEANUP_THRESHOLD
       THEN /\ pp_pc' = [pp_pc EXCEPT ![r] = "cleanup"]
            /\ tasks' = tasks
            /\ UNCHANGED <<fut, cb_pc, cb_thread, localVars>>
       ELSE /\ ReturnFrom(r)
            /\ tasks' = [tasks EXCEPT ![r] = <<>>]
    /\ UNCHANGED <<now, acc_locale, pluginVars, clear_cmd, stats_pc, notices, cacheVars, lockVars, sessionVars, run_chat, ht_pc, cancel_event,
                   ev_set>>

\* process_profile lines 578-586: the export unless the token is set
\* (export_to_json itself sends nothing for an empty list), then the
\* unlocked test of the cache size.
Export(r) ==
    /\ pp_pc[r] = "export"
    /\ exported' = [exported EXCEPT ![r] =
                       IF ~Cancelled(r) /\ output_data[r] # <<>> THEN <<output_data[r]>> ELSE @]
    /\ IF Len(locale_cache) > CACHE_CLEANUP_THRESHOLD
       THEN /\ pp_pc' = [pp_pc EXCEPT ![r] = "cleanup"]
            /\ tasks' = tasks
            /\ UNCHANGED <<fut, cb_pc, cb_thread, localVars>>
       ELSE /\ ReturnFrom(r)
            /\ tasks' = [tasks EXCEPT ![r] = <<>>]
    /\ UNCHANGED <<now, acc_locale, pluginVars, clear_cmd, stats_pc, notices, cacheVars, lockVars, sessionVars, run_chat, ht_pc, cancel_event,
                   ev_set>>

\* cleanup_cache(): its body runs once locale_cache_lock is free.  Called by
\* process_profile (line 586) it returns into the end of the run; called by
\* a worker from inside its own "with locale_cache_lock" (line 268) it
\* waits for a lock its caller holds.
CleanupCache(th) ==
    LET r == th[2]
        i == th[3]
    IN /\ locale_cache_lock = NoThread
       /\ IF th = P(r)
          THEN /\ pp_pc[r] = "cleanup"
               /\ ReturnFrom(r)
               /\ tasks' = [tasks EXCEPT ![r] = <<>>]
               /\ UNCHANGED locale_cache_lock
          ELSE /\ i \in 1 .. Len(tasks[r])
               /\ tasks[r][i].pc = "cleanup"
               /\ tasks' = [tasks EXCEPT ![r][i].pc = "miss_stats"]
               /\ locale_cache_lock' = NoThread
               /\ UNCHANGED <<pp_pc, fut, cb_pc, cb_thread, localVars>>
       /\ locale_cache' = CleanedCache(locale_cache, FALSE)
       /\ UNCHANGED <<now, acc_locale, pluginVars, clear_cmd, stats_pc, notices, cache_hit_stats, cache_miss_stats, stats_lock, active_users_lock,
                      sessionVars, run_chat, ht_pc, cancel_event, ev_set, exported>>

\* The threads that may be inside cleanup_cache.
CleanupCallers ==
    {P(r) : r \in Runs} \cup {W(r, i) : r \in Runs, i \in 1 .. NumLots}

(***************************************************************************)
(* The handlers.                                                           *)
(***************************************************************************)

NewSession == [step |-> STATE_WAIT_LINK, cancel_event |-> 0]

\* chat_id in user_data and user_data[chat_id].get("cancel_event")
HasCancelEvent(c) == c \in DOMAIN user_data /\ user_data[c].cancel_event # 0

\* chat_id in active_tasks and not active_tasks[chat_id].done()
HasActiveTask(c) == c \in DOMAIN active_tasks /\ ~Done(active_tasks[c])

\* cmd_steal_lots: rejected while the caller's registered future is not done,
\* otherwise a fresh user_data entry in STATE_WAIT_LINK.
CmdStealLots(c) ==
    /\ active_users_lock = NoThread
    /\ IF HasActiveTask(c)
       THEN UNCHANGED user_data
       ELSE user_data' = Put(user_data, c, NewSession)
    /\ UNCHANGED <<now, acc_locale, pluginVars, clear_cmd, stats_pc, notices, cacheVars, lockVars, active_tasks, runVars, ev_set, poolVars,
                   loopVars>>

\* cmd_cancel (lines 618-642).  With a stored Event: set it and return.
\* Otherwise, with a registered future that is not done: Future.cancel(),
\* which cancels a queued future and then runs its done-callbacks in this
\* thread, inside "with active_users_lock" (the callback waits for that
\* lock), and does nothing to a running one; then both entries are popped.
\* Otherwise the user_data entry, if any, is popped.
CmdCancel(c) ==
    /\ active_users_lock = NoThread
    /\ IF HasCancelEvent(c)
       THEN /\ ev_set' = [ev_set EXCEPT ![user_data[c].cancel_event] = TRUE]
            /\ UNCHANGED <<sessionVars, fut, cb_pc, cb_thread, active_users_lock>>
       ELSE IF HasActiveTask(c) /\ fut[active_tasks[c]] = "pending"
       THEN LET r == active_tasks[c]
            IN /\ fut' = [fut EXCEPT ![r] = "cancelled"]
               /\ cb_pc' = [cb_pc EXCEPT ![r] = "waiting"]
               /\ cb_thread' = [cb_thread EXCEPT ![r] = H("cmd_cancel", c)]
               /\ active_users_lock' = H("cmd_cancel", c)
               /\ UNCHANGED <<sessionVars, ev_set>>
       ELSE /\ active_tasks' = IF HasActiveTask(c) THEN Pop(active_tasks, c) ELSE active_tasks
            /\ user_data' = Pop(user_data, c)
            /\ UNCHANGED <<ev_set, fut, cb_pc, cb_thread, active_users_lock>>
    /\ UNCHANGED <<now, acc_locale, pluginVars, clear_cmd, stats_pc, notices, cacheVars, locale_cache_lock, stats_lock, run_chat, pp_pc, ht_pc,
                   cancel_event, poolVars, loopVars>>

\* handle_callback with data "cancel_copy": sets the stored Event, if any.
HandleCallback(c) ==
    /\ active_users_lock = NoThread
    /\ IF HasCancelEvent(c)
       THEN ev_set' = [ev_set EXCEPT ![user_data[c].cancel_event] = TRUE]
       ELSE UNCHANGED ev_set
    /\ UNCHANGED <<now, acc_locale, pluginVars, clear_cmd, stats_pc, notices, cacheVars, lockVars, sessionVars, runVars, poolVars, loopVars>>

\* cmd_stats (line 706): "with locale_cache_lock, stats_lock,
\* active_users_lock" takes the three locks one after the other.  First
\* locale_cache_lock.
StatsEnter(c) ==
    /\ stats_pc[c] = "none"
    /\ locale_cache_lock = NoThread
    /\ locale_cache_lock' = H("cmd_stats", c)
    /\ stats_pc' = [stats_pc EXCEPT ![c] = "stats_lock"]
    /\ UNCHANGED <<now, acc_locale, pluginVars, clear_cmd, notices, cacheVars, stats_lock, active_users_lock, sessionVars,
                   runVars, ev_set, poolVars, loopVars>>

\* cmd_stats, holding locale_cache_lock, takes stats_lock.
StatsSecond(c) ==
    /\ stats_pc[c] = "stats_lock"
    /\ stats_lock = NoThread
    /\ stats_lock' = H("cmd_stats", c)
    /\ stats_pc' = [stats_pc EXCEPT ![c] = "active_users_lock"]
    /\ UNCHANGED <<now, acc_locale, pluginVars, clear_cmd, notices, cacheVars, locale_cache_lock, active_users_lock,
                   sessionVars, runVars, ev_set, poolVars, loopVars>>

\* cmd_stats, holding both, takes active_users_lock, reads the counters
\* (lines 707-724), releases the three locks and sends its report.
StatsReport(c) ==
    /\ stats_pc[c] = "active_users_lock"
    /\ active_users_lock = NoThread
    /\ locale_cache_lock' = NoThread
    /\ stats_lock' = NoThread
    /\ stats_pc' = [stats_pc EXCEPT ![c] = "none"]
    /\ UNCHANGED <<now, acc_locale, pluginVars, clear_cmd, notices, cacheVars, active_users_lock, sessionVars, runVars,
                   ev_set, poolVars, loopVars>>

\* A handle_text that leaves the entry of a caller who sent a bad link.
HandleTextKeepingEntry(c, valid, r) ==
    IF c \notin DOMAIN user_data \/ user_data[c].step # STATE_WAIT_LINK
    THEN r = 1 /\ UNCHANGED vars
    ELSE /\ IF valid
            THEN /\ run_chat[r] = 0
                 /\ \A q \in Runs : q < r => run_chat[q] # 0
                 /\ user_data' = [user_data EXCEPT ![c].step = STATE_PROCESSING]
                 /\ run_chat' = [run_chat EXCEPT ![r] = c]
                 /\ fut' = [fut EXCEPT ![r] = "pending"]
                 /\ pp_pc' = [pp_pc EXCEPT ![r] = "queued"]
                 /\ ht_pc' = [ht_pc EXCEPT ![r] = "register"]
                 /\ UNCHANGED notices
            ELSE /\ r = 1
                 /\ user_data' = user_data
                 /\ notices' = Notified(c, "bad_link")
                 /\ UNCHANGED <<run_chat, fut, pp_pc, ht_pc>>
         /\ UNCHANGED <<now, acc_locale, pluginVars, clear_cmd, stats_pc, cacheVars, lockVars, active_tasks, cb_pc, cb_thread, cancel_event,
                        ev_set, poolVars, loopVars>>

\* No cmd_clear_cache of the chat is running and none has reported yet.
NoClear == [pc |-> "none", cache_size_before |-> 0, reported |-> -1]

\* cmd_clear_cache, first block (lines 752-754): under locale_cache_lock the
\* size is read and the dict is emptied.
ClearCache(c) ==
    /\ clear_cmd[c].pc = "none"
    /\ locale_cache_lock = NoThread
    /\ locale_cache' = <<>>
    /\ clear_cmd' = [clear_cmd EXCEPT ![c].pc = "stats_lock",
                                      ![c].cache_size_before = Len(locale_cache)]
    /\ UNCHANGED <<now, acc_locale, pluginVars, stats_pc, notices, cache_hit_stats, cache_miss_stats, lockVars,
                   sessionVars, runVars, ev_set, poolVars, loopVars>>

\* A cmd_clear_cache that empties the hit counters only.
ClearStatsHitsOnly(c) ==
    /\ clear_cmd[c].pc = "stats_lock"
    /\ stats_lock = NoThread
    /\ cache_hit_stats' = [l \in Locales |-> 0]
    /\ cache_miss_stats' = cache_miss_stats
    /\ clear_cmd' = [clear_cmd EXCEPT ![c] = [pc |-> "none", cache_size_before |-> 0,
                                              reported |-> @.cache_size_before]]
    /\ UNCHANGED <<now, acc_locale, pluginVars, stats_pc, notices, locale_cache, lockVars, sessionVars, runVars,
                   ev_set, poolVars, loopVars>>

\* cmd_clear_cache, second block (lines 756-760): under stats_lock both
\* counter dicts are emptied (a missing key of a defaultdict(int) counts as
\* 0), then the message reports cache_size_before.
ClearStats(c) ==
    /\ clear_cmd[c].pc = "stats_lock"
    /\ stats_lock = NoThread
    /\ cache_hit_stats' = [l \in Locales |-> 0]
    /\ cache_miss_stats' = [l \in Locales |-> 0]
    /\ clear_cmd' = [clear_cmd EXCEPT ![c] = [pc |-> "none", cache_size_before |-> 0,
                                              reported |-> @.cache_size_before]]
    /\ UNCHANGED <<now, acc_locale, pluginVars, stats_pc, notices, locale_cache, lockVars, sessionVars, runVars,
                   ev_set, poolVars, loopVars>>

\* A handle_text that does not look at the step of the caller's entry.
HandleTextAnyStep(c, valid, r) ==
    IF c \notin DOMAIN user_data
    THEN r = 1 /\ UNCHANGED vars
    ELSE /\ IF valid
            THEN /\ run_chat[r] = 0
                 /\ \A q \in Runs : q < r => run_chat[q] # 0
                 /\ user_data' = [user_data EXCEPT ![c].step = STATE_PROCESSING]
                 /\ run_chat' = [run_chat EXCEPT ![r] = c]
                 /\ fut' = [fut EXCEPT ![r] = "pending"]
                 /\ pp_pc' = [pp_pc EXCEPT ![r] = "queued"]
                 /\ ht_pc' = [ht_pc EXCEPT ![r] = "register"]
                 /\ UNCHANGED notices
            ELSE /\ r = 1
                 /\ user_data' = Pop(user_data, c)
                 /\ notices' = Notified(c, "bad_link")
                 /\ UNCHANGED <<run_chat, fut, pp_pc, ht_pc>>
         /\ UNCHANGED <<now, acc_locale, pluginVars, clear_cmd, stats_pc, cacheVars, lockVars, active_tasks, cb_pc, cb_thread, cancel_event,
                        ev_set, poolVars, loopVars>>

\* handle_text (lines 660-683) on a text from which extract_user_id gets an
\* id (valid) or None: for a caller without an entry (lines 665-666) or
\* with an entry outside STATE_WAIT_LINK (line 669) it returns without
\* having changed anything; an invalid
\* link sends the notice of line 673 and pops the entry; a valid one moves to
\* STATE_PROCESSING and submits
\* process_profile to a fresh executor (run r).
HandleText(c, valid, r) ==
    IF c \notin DOMAIN user_data \/ user_data[c].step # STATE_WAIT_LINK
    THEN r = 1 /\ UNCHANGED vars
    ELSE /\ IF valid
            THEN /\ run_chat[r] = 0
                 /\ \A q \in Runs : q < r => run_chat[q] # 0
                 /\ user_data' = [user_data EXCEPT ![c].step = STATE_PROCESSING]
                 /\ run_chat' = [run_chat EXCEPT ![r] = c]
                 /\ fut' = [fut EXCEPT ![r] = "pending"]
                 /\ pp_pc' = [pp_pc EXCEPT ![r] = "queued"]
                 /\ ht_pc' = [ht_pc EXCEPT ![r] = "register"]
                 /\ UNCHANGED notices
            ELSE /\ r = 1
                 /\ user_data' = Pop(user_data, c)
                 /\ notices' = Notified(c, "bad_link")
                 /\ UNCHANGED <<run_chat, fut, pp_pc, ht_pc>>
         /\ UNCHANGED <<now, acc_locale, pluginVars, clear_cmd, stats_pc, cacheVars, lockVars, active_tasks, cb_pc, cb_thread, cancel_event,
                        ev_set, poolVars, loopVars>>

\* handle_text lines 686-698: the future is stored under the lock, then
\* add_done_callback, which runs the callback in this thread when the
\* future is already done.
HTRegister(r) ==
    /\ ht_pc[r] = "register"
    /\ active_users_lock = NoThread
    /\ active_tasks' = Put(active_tasks, run_chat[r], r)
    /\ IF Done(r)
       THEN /\ cb_pc' = [cb_pc EXCEPT ![r] = "waiting"]
            /\ cb_thread' = [cb_thread EXCEPT ![r] = T(r)]
       ELSE /\ cb_pc' = [cb_pc EXCEPT ![r] = "registered"]
            /\ UNCHANGED cb_thread
    /\ ht_pc' = [ht_pc EXCEPT ![r] = "wait"]
    /\ UNCHANGED <<now, acc_locale, pluginVars, clear_cmd, stats_pc, notices, cacheVars, lockVars, user_data, run_chat, fut, pp_pc, cancel_event,
                   ev_set, poolVars, loopVars>>

\* cleanup_callback (lines 690-696): both entries of the chat are popped,
\* whatever they hold by now.
CleanupCallback(r) ==
    /\ cb_pc[r] = "waiting"
    /\ active_users_lock = NoThread
    /\ active_tasks' = Pop(active_tasks, run_chat[r])
    /\ user_data' = Pop(user_data, run_chat[r])
    /\ cb_pc' = [cb_pc EXCEPT ![r] = "done"]
    /\ UNCHANGED <<now, acc_locale, pluginVars, clear_cmd, stats_pc, notices, cacheVars, lockVars, run_chat, fut, pp_pc, ht_pc, cb_thread,
                   cancel_event, ev_set, poolVars, loopVars>>

\* The end of "with ThreadPoolExecutor() as executor" in handle_text:
\* shutdown(wait=True) has returned, and the handler with it, once the
\* executor's thread has ended.  The return changes nothing else.
HandleTextReturned(r) ==
    ht_pc[r] = "wait" /\ pp_pc[r] \in {"returned", "skipped"} /\ cb_pc[r] = "done"

(***************************************************************************)
(* src/copy_foreign_lots_plugin.py: the commands that export, copy and     *)
(* create lots, and their RUNNING flag.  The file holds two plugins in one *)
(* module, so both assignments "RUNNING = False" (lines 29, 282) and every *)
(* "global RUNNING" name the same variable.  A handler runs for a message  *)
(* of a user; handlers of different users run in different threads.  A     *)
(* step of a handler runs up to its next remote call.                      *)
(***************************************************************************)

CBT_CACHE_FOREIGN_LOTS == "foreign_lots_plugin.cache"
CBT_COPY_LOTS == "lots_copy_plugin.copy"
CBT_CREATE_LOTS == "lots_copy_plugin.create"
CBT_CACHE_LOTS_FROM_URL == "lots_copy_plugin.cache_from_url"

\* Everything the handlers of src/copy_foreign_lots_plugin.py leave alone.
parserVars == <<now, acc_locale, cacheVars, lockVars, sessionVars, runVars, ev_set, poolVars,
                loopVars, stats_pc, clear_cmd, notices>>

\* The handler the user's last message was given to, and how it ended.
Ended(u, name, outcome) ==
    [handlers EXCEPT ![u] = [name |-> name, pc |-> "idle", outcome |-> outcome]]

\* A command that asks for an input (act_cache_foreign_lots, act_copy_lots,
\* act_cache_lots_from_url, act_create_lots): refused while RUNNING,
\* otherwise the prompt is sent and tg.set_state records what is awaited.
Activate(u, name, state) ==
    /\ handlers[u].pc = "idle"
    /\ IF RUNNING
       THEN /\ handlers' = Ended(u, name, "rejected")
            /\ UNCHANGED tg_state
       ELSE /\ handlers' = Ended(u, name, "prompted")
            /\ tg_state' = [tg_state EXCEPT ![u] = state]
    /\ UNCHANGED <<RUNNING, parserVars>>

\* The start of a handler that does the work, up to its "RUNNING = True":
\* a handler bound to an awaited input (state # "none") is called only for a
\* user in that state and clears it first; a handler that tests RUNNING
\* (guarded) refuses while it is set; an input that cannot be used ends the
\* handler before the flag is touched.
Start(u, name, state, guarded, valid) ==
    /\ handlers[u].pc = "idle"
    /\ state # "none" => tg_state[u] = state
    /\ tg_state' = IF state # "none" THEN [tg_state EXCEPT ![u] = "none"] ELSE tg_state
    /\ IF guarded /\ RUNNING
       THEN /\ handlers' = Ended(u, name, "rejected")
            /\ UNCHANGED RUNNING
       ELSE IF ~valid
       THEN /\ handlers' = Ended(u, name, "invalid")
            /\ UNCHANGED RUNNING
       ELSE /\ RUNNING' = TRUE
            /\ handlers' = [handlers EXCEPT ![u] = [name |-> name, pc |-> "try", outcome |-> "none"]]
    /\ UNCHANGED parserVars

act_cache_foreign_lots(u) == Activate(u, "act_cache_foreign_lots", CBT_CACHE_FOREIGN_LOTS)

\* cache_foreign_lots (lines 182-190): RUNNING is not tested.
cache_foreign_lots(u, valid) ==
    Start(u, "cache_foreign_lots", CBT_CACHE_FOREIGN_LOTS, FALSE, valid)

act_copy_lots(u) == Activate(u, "act_copy_lots", CBT_COPY_LOTS)

\* copy_lots (lines 583-594): RUNNING is not tested.
copy_lots(u, valid) == Start(u, "copy_lots", CBT_COPY_LOTS, FALSE, valid)

\* cache_lots (lines 626-635): a command, it tests RUNNING itself.
cache_lots(u) == Start(u, "cache_lots", "none", TRUE, TRUE)

act_cache_lots_from_url(u) == Activate(u, "act_cache_lots_from_url", CBT_CACHE_LOTS_FROM_URL)

\* cache_lots_from_url (lines 674-690): RUNNING is tested before the link.
cache_lots_from_url(u, valid) ==
    Start(u, "cache_lots_from_url", CBT_CACHE_LOTS_FROM_URL, TRUE, valid)

act_create_lots(u) == Activate(u, "act_create_lots", CBT_CREATE_LOTS)

\* create_lots (lines 737-747): RUNNING is not tested.
create_lots(u, valid) == Start(u, "create_lots", CBT_CREATE_LOTS, FALSE, valid)

\* The ways the try block of a handler ends: at its end, by an exception,
\* or, in cache_lots_from_url, by the return of line 705.
Outcomes(name) ==
    {"done", "failed"} \cup (IF name = "cache_lots_from_url" THEN {"missing"} ELSE {})

\* A try block whose except clause leaves the flag set.
TryEndsKeepingFlag(u, outcome) ==
    /\ handlers[u].pc = "try"
    /\ outcome \in Outcomes(handlers[u].name)
    /\ RUNNING' = (outcome = "failed" /\ RUNNING)
    /\ handlers' = [handlers EXCEPT ![u].pc = "reply", ![u].outcome = outcome]
    /\ UNCHANGED <<tg_state, parserVars>>

\* The end of the try block of a handler: "RUNNING = False" is the last
\* statement of the block (lines 218, 617, 654, 712, 766), the first of
\* every except clause (lines 221, 620, 656, 714, 717, 769) and precedes the
\* return of line 705; the closing message is sent after it.
TryEnds(u, outcome) ==
    /\ handlers[u].pc = "try"
    /\ outcome \in Outcomes(handlers[u].name)
    /\ RUNNING' = FALSE
    /\ handlers' = [handlers EXCEPT ![u].pc = "reply", ![u].outcome = outcome]
    /\ UNCHANGED <<tg_state, parserVars>>

\* The handler returns (or its closing message raises) after the flag was
\* cleared.
HandlerReturns(u) ==
    /\ handlers[u].pc = "reply"
    /\ handlers' = [handlers EXCEPT ![u].pc = "idle"]
    /\ UNCHANGED <<RUNNING, tg_state, parserVars>>

\* The clock advances.
Tick ==
    /\ now < MaxTicks * TimeStep
    /\ now' = now + TimeStep
    /\ UNCHANGED <<acc_locale, pluginVars, cacheVars, lockVars, sessionVars, runVars, ev_set, poolVars, loopVars,
                   stats_pc, clear_cmd, notices>>

(***************************************************************************)
(* Specifications.                                                         *)
(***************************************************************************)

\* The lists profile.get_lots() returns: the first n lots, in listing order.
Profile(n) == [i \in 1 .. n |-> i]

\* The listings get_lots may return: up to NumLots lots, in any order.
Listings ==
    {ls \in UNION {[1 .. n -> LotIds] : n \in 0 .. NumLots} :
        \A i, j \in 1 .. Len(ls) : i # j => ls[i] # ls[j]}

\* The state of the run-independent part after construction, but for the
\* cache and its statistics.
Idle ==
    /\ now = 0
    /\ locale_cache_lock = NoThread
    /\ stats_lock = NoThread
    /\ active_users_lock = NoThread
    /\ user_data = <<>>
    /\ active_tasks = <<>>
    /\ run_chat = [r \in Runs |-> 0]
    /\ fut = [r \in Runs |-> "none"]
    /\ pp_pc = [r \in Runs |-> "none"]
    /\ ht_pc = [r \in Runs |-> "none"]
    /\ cb_pc = [r \in Runs |-> "none"]
    /\ cb_thread = [r \in Runs |-> NoThread]
    /\ cancel_event = [r \in Runs |-> FALSE]
    /\ ev_set = [r \in Runs |-> FALSE]
    /\ lots = [r \in Runs |-> <<>>]
    /\ tasks = [r \in Runs |-> <<>>]
    /\ progress_queue = [r \in Runs |-> {}]
    /\ yielded = [r \in Runs |-> {}]
    /\ output_data = [r \in Runs |-> <<>>]
    /\ success_count = [r \in Runs |-> 0]
    /\ error_count = [r \in Runs |-> 0]
    /\ completed = [r \in Runs |-> 0]
    /\ loop_cancelled = [r \in Runs |-> FALSE]
    /\ last_update_time = [r \in Runs |-> 0]
    /\ progress_update = [r \in Runs |-> NoUpdate]
    /\ exported = [r \in Runs |-> <<>>]
    /\ stats_pc = [c \in Callers |-> "none"]
    /\ clear_cmd = [c \in Callers |-> NoClear]
    /\ notices = [c \in Callers |-> {}]
    /\ acc_locale = AccountLocale
    /\ RUNNING = FALSE
    /\ tg_state = [u \in Callers |-> "none"]
    /\ handlers = [u \in Callers |-> NoHandler]

\* The state after construction.
Init ==
    /\ Idle
    /\ locale_cache = <<>>
    /\ cache_hit_stats = [l \in Locales |-> 0]
    /\ cache_miss_stats = [l \in Locales |-> 0]

\* What earlier runs leave in the cache once they have ended: both pages of
\* each of the given lots, fetched at time 0.
Fetched(lot_ids) ==
    [k \in 1 .. 2 * Len(lot_ids) |->
        [key |-> CacheKey(lot_ids[(k + 1) \div 2], IF k % 2 = 1 THEN "ru" ELSE "en"),
         ts |-> 0]]

\* Idle states the program reaches after earlier runs: the cache is empty,
\* or holds the pages of lot 1, or holds CACHE_CLEANUP_THRESHOLD pages of
\* lots of other owners (the most a run leaves behind), each entry counted
\* as the miss that fetched it.
WarmCaches == {<<>>, Fetched(<<1>>), Fetched(<<NumLots + 1, NumLots + 2>>)}

InitWarm ==
    /\ Idle
    /\ locale_cache \in WarmCaches
    /\ cache_hit_stats = [l \in Locales |-> 0]
    /\ cache_miss_stats = [l \in Locales |-> Len(locale_cache) \div 2]

\* A step of a worker of the inner pool.
WorkerStep(r, i) ==
    \/ StartTask(r, i)
    \/ Lookup(r, i)
    \/ \E raises \in BOOLEAN : HitStats(r, i, raises)
    \/ \E ok \in BOOLEAN : Fetch(r, i, ok)
    \/ Insert(r, i)
    \/ MissStats(r, i)
    \/ \E raises \in BOOLEAN : Sleep(r, i, raises)

\* A step of process_lots_parallel's loop and of the end of process_profile.
PoolStep(r) ==
    \/ \E i \in 1 .. NumLots : Collect(r, i)
    \/ Shutdown(r)
    \/ Export(r)

\* A step of the start of process_profile, for a profile of one of the given
\* sizes, or of the rest of the handle_text that made the run.
LaunchStep(r, sizes) ==
    \/ PPRun(r)
    \/ PPStart(r)
    \/ \E ok \in BOOLEAN : PPGetUser(r, ok)
    \/ \E n \in sizes : \E ok \in BOOLEAN : PPGetLots(r, Profile(n), ok)
    \/ HTRegister(r)
    \/ CleanupCallback(r)

\* A handler called for chat c; handle_text may start one of the given runs.
HandlerStep(c, runs) ==
    \/ CmdStealLots(c)
    \/ CmdCancel(c)
    \/ HandleCallback(c)
    \/ \E valid \in BOOLEAN : \E r \in runs : HandleText(c, valid, r)

\* A handler called for chat c by a user who sends a valid link.
RunHandlerStep(c) ==
    \/ CmdStealLots(c)
    \/ CmdCancel(c)
    \/ HandleCallback(c)
    \/ HandleText(c, TRUE, 1)

\* Every thread of one run over a profile of one of the given sizes.
PipelineNext(sizes) ==
    \/ \E c \in Chats : RunHandlerStep(c)
    \/ LaunchStep(1, sizes)
    \/ PoolStep(1)
    \/ \E i \in 1 .. NumLots : WorkerStep(1, i)
    \/ \E th \in CleanupCallers : CleanupCache(th)

\* One run over a profile of up to MaxProfile lots, from an idle state.
Next == PipelineNext(0 .. MaxProfile)

Spec == InitWarm /\ [][Next]_vars

\* Up to MaxRuns runs, over owners whose list is empty or cannot be fetched:
\* the handlers and the threads of handle_text in every interleaving.
NextSessions ==
    \/ \E c \in Chats : HandlerStep(c, Runs)
    \/ \E r \in Runs : LaunchStep(r, {0})

SpecSessions == Init /\ [][NextSessions]_vars

\* One run over a profile of NumLots lots, more than the pool has threads,
\* on an empty cache, with every fetch returning a page and every record
\* built.
NextPool ==
    \/ \E c \in Chats : RunHandlerStep(c)
    \/ LaunchStep(1, {NumLots})
    \/ PoolStep(1)
    \/ \E i \in 1 .. NumLots :
          \/ StartTask(1, i)
          \/ Lookup(1, i)
          \/ Fetch(1, i, TRUE)
          \/ Insert(1, i)
          \/ MissStats(1, i)
          \/ Sleep(1, i, FALSE)
    \/ \E th \in CleanupCallers : CleanupCache(th)

SpecPool == Init /\ [][NextPool]_vars

\* What a run that began at the given time left in the cache: both pages of
\* each of the given lots.
FetchedAt(lot_ids, time) ==
    [k \in 1 .. 2 * Len(lot_ids) |-> [Fetched(lot_ids)[k] EXCEPT !.ts = time]]

\* An idle state in which the pages of lot 1 have expired and the pages of
\* a lot of another owner, fetched later, have not.
InitAged ==
    /\ Idle
    /\ locale_cache = FetchedAt(<<1>>, 0 - LOCALE_CACHE_TTL) \o FetchedAt(<<NumLots + 1>>, 0 - TimeStep)
    /\ cache_hit_stats = [l \in Locales |-> 0]
    /\ cache_miss_stats = [l \in Locales |-> 2]

\* One run over a profile of MaxProfile lots, the first of them lot 1, while
\* the clock advances; every fetch returns a page and every record is built.
NextEvict ==
    \/ \E c \in Chats : RunHandlerStep(c)
    \/ LaunchStep(1, {MaxProfile})
    \/ PoolStep(1)
    \/ \E i \in 1 .. MaxProfile :
          \/ StartTask(1, i)
          \/ Lookup(1, i)
          \/ Fetch(1, i, TRUE)
          \/ Insert(1, i)
          \/ MissStats(1, i)
          \/ Sleep(1, i, FALSE)
    \/ \E th \in CleanupCallers : CleanupCache(th)
    \/ Tick

SpecEvict == InitAged /\ [][NextEvict]_vars

\* One run over a profile of one lot, and cmd_stats.
NextStats ==
    \/ PipelineNext({1})
    \/ \E c \in Chats : StatsEnter(c) \/ StatsSecond(c) \/ StatsReport(c)

SpecStats == InitWarm /\ [][NextStats]_vars

\* One run over a profile of one lot while the clock advances.
NextCache ==
    \/ PipelineNext({1})
    \/ Tick

SpecCache == InitWarm /\ [][NextCache]_vars

\* The owner's listing when it is processed again: as many lots as the
\* first run exported.
SameProfile == Profile(Len(exported[1][1]))

\* A step of the worker of lot i of run r when every fetch returns a page and
\* every record is built.
SuccessfulWorkerStep(r, i) ==
    \/ StartTask(r, i)
    \/ Lookup(r, i)
    \/ HitStats(r, i, FALSE)
    \/ Fetch(r, i, TRUE)
    \/ Insert(r, i)
    \/ MissStats(r, i)
    \/ Sleep(r, i, FALSE)

\* A caller who starts a run from an idle Session, never cancels, and once
\* the run is over starts a second one for the same owner, on a cache that
\* was empty before the first run; time passes between the two runs (to keep
\* the state space small, only after a first run over fewer than NumLots
\* lots: a second run after NumLots lots starts at once).
NextRerun ==
    \/ \E c \in Chats : c \notin DOMAIN user_data /\ c \notin DOMAIN active_tasks /\ CmdStealLots(c)
    \/ \E c \in Chats : \E r \in Runs : HandleText(c, TRUE, r)
    \/ \E r \in Runs :
          \/ PPRun(r)
          \/ PPStart(r)
          \/ PPGetUser(r, TRUE)
          \/ HTRegister(r)
          \/ CleanupCallback(r)
          \/ PoolStep(r)
          \/ \E i \in 1 .. NumLots : SuccessfulWorkerStep(r, i)
    \/ \E n \in 1 .. NumLots : PPGetLots(1, Profile(n), TRUE)
    \/ exported[1] # <<>> /\ PPGetLots(2, SameProfile, TRUE)
    \/ \E th \in CleanupCallers : CleanupCache(th)
    \/ pp_pc[1] = "returned" /\ pp_pc[2] = "none" /\ Len(exported[1][1]) < NumLots /\ Tick

SpecRerun == Init /\ [][NextRerun]_vars

\* One run over a profile of MaxProfile lots on an empty cache, every fetch
\* succeeding, in which a message to the caller may fail to be sent.
NextRender ==
    \/ \E c \in Chats : RunHandlerStep(c)
    \/ LaunchStep(1, {MaxProfile})
    \/ PoolStep(1)
    \/ \E i \in 1 .. MaxProfile :
          \/ StartTask(1, i)
          \/ Lookup(1, i)
          \/ Fetch(1, i, TRUE)
          \/ Insert(1, i)
          \/ MissStats(1, i)
          \/ Sleep(1, i, FALSE)
    \/ SendProgressFails(1, Profile(MaxProfile))
    \/ EditProgressFails(1, Profile(MaxProfile))
    \/ \E i \in 1 .. MaxProfile : CancelNoticeFails(1, i)
    \/ AbortReturn(1)

SpecRender == Init /\ [][NextRender]_vars

\* One run over a profile of one lot while cmd_clear_cache is called.
NextClear ==
    \/ PipelineNext({1})
    \/ \E c \in Chats : ClearCache(c) \/ ClearStats(c)

SpecClear == InitWarm /\ [][NextClear]_vars

\* Two callers, each of whom starts one run from an idle Session and never
\* cancels; both copy the owner of lot 1, on a cache that was empty, and
\* every fetch returns a page.
NextShared ==
    \/ \E c \in Callers : c \notin DOMAIN user_data /\ c \notin DOMAIN active_tasks /\ CmdStealLots(c)
    \/ \E c \in Callers : \E r \in Runs : HandleText(c, TRUE, r)
    \/ \E r \in Runs :
          \/ PPRun(r)
          \/ PPStart(r)
          \/ PPGetUser(r, TRUE)
          \/ PPGetLots(r, Profile(1), TRUE)
          \/ HTRegister(r)
          \/ CleanupCallback(r)
          \/ PoolStep(r)
          \/ SuccessfulWorkerStep(r, 1)

SpecShared == Init /\ [][NextShared]_vars

\* One run over a profile of NumLots lots on a cache that was empty, by a
\* caller who does not cancel, every fetch returning a page;
\* cmd_clear_cache is called once the lots are processed.
NextTrim ==
    \/ \E c \in Chats : c \notin DOMAIN user_data /\ c \notin DOMAIN active_tasks /\ CmdStealLots(c)
    \/ \E c \in Chats : HandleText(c, TRUE, 1)
    \/ PPRun(1)
    \/ PPStart(1)
    \/ PPGetUser(1, TRUE)
    \/ PPGetLots(1, Profile(NumLots), TRUE)
    \/ HTRegister(1)
    \/ CleanupCallback(1)
    \/ PoolStep(1)
    \/ \E i \in 1 .. NumLots :
          \/ StartTask(1, i)
          \/ Lookup(1, i)
          \/ Fetch(1, i, TRUE)
          \/ Insert(1, i)
          \/ MissStats(1, i)
          \/ Sleep(1, i, FALSE)
    \/ \E th \in CleanupCallers : CleanupCache(th)
    \/ \E c \in Chats :
          \/ pp_pc[1] \in {"export", "cleanup", "returned"} /\ ClearCache(c)
          \/ ClearStats(c)

SpecTrim == Init /\ [][NextTrim]_vars

\* One run on a cache that was empty, over any listing of up to NumLots
\* lots, by a caller who does not cancel, every fetch returning a page.
NextSubmit ==
    \/ \E c \in Chats : c \notin DOMAIN user_data /\ c \notin DOMAIN active_tasks /\ CmdStealLots(c)
    \/ \E c \in Chats : HandleText(c, TRUE, 1)
    \/ PPRun(1)
    \/ PPStart(1)
    \/ PPGetUser(1, TRUE)
    \/ \E ls \in Listings : PPGetLots(1, ls, TRUE)
    \/ HTRegister(1)
    \/ CleanupCallback(1)
    \/ PoolStep(1)
    \/ \E i \in 1 .. NumLots :
          \/ StartTask(1, i)
          \/ Lookup(1, i)
          \/ Fetch(1, i, TRUE)
          \/ Insert(1, i)
          \/ MissStats(1, i)
          \/ Sleep(1, i, FALSE)
    \/ \E th \in CleanupCallers : CleanupCache(th)

SpecSubmit == Init /\ [][NextSubmit]_vars

\* The two callers of SpecShared when a fetch may fail.
NextRefetch ==
    \/ \E c \in Callers : c \notin DOMAIN user_data /\ c \notin DOMAIN active_tasks /\ CmdStealLots(c)
    \/ \E c \in Callers : \E r \in Runs : HandleText(c, TRUE, r)
    \/ \E r \in Runs :
          \/ PPRun(r)
          \/ PPStart(r)
          \/ PPGetUser(r, TRUE)
          \/ PPGetLots(r, Profile(1), TRUE)
          \/ HTRegister(r)
          \/ CleanupCallback(r)
          \/ PoolStep(r)
          \/ StartTask(r, 1)
          \/ Lookup(r, 1)
          \/ HitStats(r, 1, FALSE)
          \/ \E ok \in BOOLEAN : Fetch(r, 1, ok)
          \/ Insert(r, 1)
          \/ MissStats(r, 1)
          \/ Sleep(r, 1, FALSE)

SpecRefetch == Init /\ [][NextRefetch]_vars

\* The commands and inputs of the users of src/copy_foreign_lots_plugin.py.
NextPlugin ==
    \E u \in Callers :
       \/ act_cache_foreign_lots(u)
       \/ \E valid \in BOOLEAN : cache_foreign_lots(u, valid)
       \/ act_copy_lots(u)
       \/ \E valid \in BOOLEAN : copy_lots(u, valid)
       \/ cache_lots(u)
       \/ act_cache_lots_from_url(u)
       \/ \E valid \in BOOLEAN : cache_lots_from_url(u, valid)
       \/ act_create_lots(u)
       \/ \E valid \in BOOLEAN : create_lots(u, valid)
       \/ \E outcome \in {"done", "failed", "missing"} : TryEnds(u, outcome)
       \/ HandlerReturns(u)

SpecPlugin == Init /\ [][NextPlugin]_vars

\* The scheduling of the threads of the run: a thread that can take a step
\* takes it (every remote call returns, every sleep ends).  The handlers are
\* called when the user sends something; nothing makes the user do so.
Fairness ==
    /\ WF_vars(LaunchStep(1, 0 .. MaxProfile))
    /\ WF_vars(PoolStep(1))
    /\ \A i \in 1 .. NumLots : WF_vars(WorkerStep(1, i))
    /\ WF_vars(\E th \in CleanupCallers : CleanupCache(th))

SpecFair == InitWarm /\ [][Next]_vars /\ Fairness

\* SpecSessions with the scheduling of the threads of every run.
FairnessSessions == \A r \in Runs : WF_vars(LaunchStep(r, {0}))

SpecSessionsFair == Init /\ [][NextSessions]_vars /\ FairnessSessions

(***************************************************************************)
(* Properties.                                                             *)
(***************************************************************************)

\* A call of get_cached_locale_data by the worker of lot i of run r
\* returns in this step.
LookupReturns(r, i) == (\E raises \in BOOLEAN : HitStats(r, i, raises)) \/ MissStats(r, i)

\* C1 (cache capacity): whenever a call of get_cached_locale_data returns,
\* in any interleaving of the workers, locale_cache holds at most
\* MAX_CACHE_SIZE entries.
C1_CacheCapacity ==
    [][\A r \in Runs : \A i \in 1 .. NumLots :
          LookupReturns(r, i) => Len(locale_cache') <= MAX_CACHE_SIZE]_vars

\* C2 (cache TTL): a lookup returns a hit only for an entry whose stored
\* time is less than LOCALE_CACHE_TTL before the time the lookup read; when
\* the entry is present but that old or older, the lookup goes to the remote
\* fetch and the entry stays in the dict.
C2_CacheTTL ==
    [][\A i \in 1 .. NumLots :
          (i <= Len(tasks[1]) /\ i <= Len(tasks'[1]) /\ tasks[1][i].pc = "lookup"
             /\ tasks'[1][i].pc # "lookup")
          => LET t == tasks[1][i]
                 k == CacheIndex(locale_cache, CacheKey(t.lot, t.loc))
             IN /\ tasks'[1][i].pc = "hit_stats"
                     => k # 0 /\ t.current_time - locale_cache[k].ts < LOCALE_CACHE_TTL
                /\ (k # 0 /\ t.current_time - locale_cache[k].ts >= LOCALE_CACHE_TTL)
                     => tasks'[1][i].pc = "fetch" /\ locale_cache' = locale_cache]_vars

\* A worker is at the remote fetch for a key whose expired entry is still
\* in the dict.
C2_StaleEntryRefetched ==
    \E i \in 1 .. Len(tasks[1]) :
        LET t == tasks[1][i]
            k == CacheIndex(locale_cache, CacheKey(t.lot, t.loc))
        IN /\ t.pc = "fetch"
           /\ k # 0
           /\ t.current_time - locale_cache[k].ts >= LOCALE_CACHE_TTL

\* C3 (concurrency bound): at no point of a run are more than MAX_WORKERS
\* invocations of process_lot active; the others are queued or have ended.
C3_ConcurrencyBound ==
    Cardinality({i \in 1 .. Len(tasks[1]) :
           tasks[1][i].pc \notin {"pending", "cancelled", "done"}}) <= MAX_WORKERS

\* MAX_WORKERS invocations are active while another one is queued.
C3_PoolFullWithQueue ==
    /\ Cardinality({i \in 1 .. Len(tasks[1]) :
           tasks[1][i].pc \notin {"pending", "cancelled", "done"}}) = MAX_WORKERS
    /\ \E i \in 1 .. Len(tasks[1]) : tasks[1][i].pc = "pending"

\* The caller's Session is in Processing.
Processing(c) == c \in DOMAIN user_data /\ user_data[c].step = STATE_PROCESSING

\* The caller's Session is Idle: neither dict has an entry for the caller.
IdleSession(c) == c \notin DOMAIN user_data /\ c \notin DOMAIN active_tasks

\* C4 (session liveness): a Session that is in Processing eventually is
\* Idle, with its user_data entry and its active_tasks entry removed.
C4_SessionLiveness == \A c \in Chats : Processing(c) ~> IdleSession(c)

\* The process_profile of run r has been submitted and has not returned.
InFlight(r) ==
    /\ pp_pc[r] \in {"queued", "start", "get_user", "get_lots", "collect", "shutdown",
                     "aborting", "export", "cleanup"}
    /\ fut[r] # "cancelled"

\* C5 (one run per caller): for each chat_id at most one process_profile is
\* in flight, in every interleaving of the handlers.
C5_OneRunPerCaller ==
    \A c \in Chats : Cardinality({r \in Runs : run_chat[r] = c /\ InFlight(r)}) <= 1

\* C6 (concurrent start rejected): cmd_steal_lots for a caller who has a
\* Session (a user_data entry, in STATE_WAIT_LINK or STATE_PROCESSING)
\* leaves user_data and active_tasks as they were.
C6_ConcurrentStartRejected ==
    [][\A c \in Chats :
          (c \in DOMAIN user_data /\ CmdStealLots(c))
          => user_data' = user_data /\ active_tasks' = active_tasks]_vars

\* C7 (cancellation monotonicity): an invocation of process_lot that starts
\* when the token of its run is set ends at once, reported as canceled, with
\* no record and without getting to a lookup or a remote fetch.
C7_CancellationMonotonic ==
    [][\A i \in 1 .. NumLots :
          (/\ i <= Len(tasks[1]) /\ i <= Len(tasks'[1])
           /\ cancel_event[1] /\ ev_set[1]
           /\ tasks[1][i].pc = "pending"
           /\ tasks'[1][i].pc \notin {"pending", "cancelled"})
          => /\ tasks'[1][i].pc = "done"
             /\ tasks'[1][i].status = "canceled"
             /\ tasks'[1][i].result = <<>>
             /\ tasks'[1][i].page_ru = "unset"
             /\ [status |-> "canceled", lot_id |-> tasks[1][i].lot] \in progress_queue'[1]]_vars

\* An invocation that started after the token was set has ended as canceled
\* while an earlier one had got to its remote fetch.
C7_StartedAfterSignal ==
    /\ cancel_event[1] /\ ev_set[1]
    /\ \E i \in 1 .. Len(tasks[1]) :
          /\ tasks[1][i].pc = "done"
          /\ tasks[1][i].status = "canceled"
          /\ tasks[1][i].page_ru = "unset"
    /\ \E j \in 1 .. Len(tasks[1]) : tasks[1][j].page_ru = "page"

\* C8 (cancel while Processing): cmd_cancel for a caller whose Session is in
\* Processing sets the token of the caller's run and leaves user_data and
\* active_tasks as they were.
C8_CancelOnlySignals ==
    [][\A c \in Chats :
          (Processing(c) /\ CmdCancel(c))
          => /\ user_data' = user_data
             /\ active_tasks' = active_tasks
             /\ \E r \in Runs : run_chat[r] = c /\ ev_set'[r]]_vars

\* process_profile goes past its export (lines 579-582) in this step, with
\* the token set.
CancelledPastExport == pp_pc[1] = "export" /\ pp_pc'[1] # "export" /\ Cancelled(1)

\* C9 (cancelled run still delivers its batch): a cancelled run in which
\* k >= 1 items were collected as successful sends an export batch of
\* exactly those k records.
C9_CancelledRunDelivers ==
    [][(CancelledPastExport /\ output_data[1] # <<>>)
          => exported'[1] = <<output_data[1]>>]_vars

\* C9 as amended: a run whose token is set when process_profile tests it
\* sends no export batch, whatever it collected; every item it did not
\* collect was reported canceled, or was cancelled before it started, or
\* completed (successfully or with an error).
C9_CancelledRunSendsNothing ==
    [][CancelledPastExport
          => /\ exported'[1] = <<>>
             /\ \A i \in 1 .. Len(tasks[1]) :
                   i \notin yielded[1]
                   => \/ tasks[1][i].pc = "cancelled"
                      \/ tasks[1][i].pc = "done"
                           /\ tasks[1][i].status \in {"canceled", "success", "error"}]_vars

\* The scenario of the spec: a run of 3 items, cancelled when 1 had been
\* collected, is past its export and has sent nothing.
C9_OneOfThreeNoBatch ==
    /\ pp_pc[1] = "cleanup"
    /\ Cancelled(1)
    /\ loop_cancelled[1]
    /\ Len(tasks[1]) = 3
    /\ Len(output_data[1]) = 1
    /\ exported[1] = <<>>

\* The record of item i of run 1 is in the list process_lots_parallel returns.
InReturned(i) ==
    /\ i <= Len(tasks[1])
    /\ tasks[1][i].result # <<>>
    /\ \E k \in 1 .. Len(output_data[1]) : output_data[1][k] = tasks[1][i].result[1]

\* C10 (completed results survive cancellation): the record of an item that
\* had completed successfully before the token was set is in the list a
\* cancelled process_lots_parallel returns.
C10_CompletedSurvive ==
    \A i \in 1 .. NumLots :
        []((i <= Len(tasks[1]) /\ tasks[1][i].result # <<>> /\ ~ev_set[1])
              => []((pp_pc[1] = "export" /\ Cancelled(1)) => InReturned(i)))

\* s is a prefix of t.
IsPrefix(s, t) == Len(s) <= Len(t) /\ SubSeq(t, 1, Len(s)) = s

\* C10 as amended: up to its return the list of process_lots_parallel only
\* grows, so what the loop has collected is never discarded, and once the
\* token is set nothing more is added: the returned list is what the loop
\* had collected before it saw the token.
C10_CollectedSurvive ==
    [][(pp_pc[1] \in {"collect", "shutdown"} /\ pp_pc'[1] \in {"collect", "shutdown", "export"})
          => /\ IsPrefix(output_data[1], output_data'[1])
             /\ Cancelled(1) => output_data'[1] = output_data[1]]_vars

\* A cancelled process_lots_parallel is about to return a non-empty list
\* that lacks the record of an item that completed successfully.
C10_ReturnedWithoutCompleted ==
    /\ pp_pc[1] = "export"
    /\ Cancelled(1)
    /\ loop_cancelled[1]
    /\ output_data[1] # <<>>
    /\ \E i \in 1 .. Len(tasks[1]) : tasks[1][i].result # <<>> /\ ~InReturned(i)

\* C11 (no duplicate items): no two records of the list of
\* process_lots_parallel, and none of an export batch, come from one item.
C11_NoDuplicateItems ==
    /\ \A k1, k2 \in 1 .. Len(output_data[1]) :
          output_data[1][k1].lot_id = output_data[1][k2].lot_id => k1 = k2
    /\ exported[1] # <<>>
          => \A k1, k2 \in 1 .. Len(exported[1][1]) :
                exported[1][1][k1].lot_id = exported[1][1][k2].lot_id => k1 = k2

\* A batch with a record of each of NumLots items has been exported.
C11_FullBatchExported == exported[1] # <<>> /\ Len(exported[1][1]) = NumLots

\* C12 (no lock nesting): no thread holds two of locale_cache_lock,
\* stats_lock and active_users_lock at the same time.
C12_NoLockNesting ==
    LET held == <<locale_cache_lock, stats_lock, active_users_lock>>
    IN \A a, b \in 1 .. 3 : (a # b /\ held[a] # NoThread) => held[a] # held[b]

\* cleanup_cache removes entries in this step.
CleanupRemoves ==
    /\ \E th \in CleanupCallers : CleanupCache(th)
    /\ locale_cache' # locale_cache

C14_OneWayCancellation ==
    [][\A c \in Chats : \A r \in Runs :
          (HasCancelEvent(c) /\ user_data[c].cancel_event = r /\ ev_set[r] /\ InFlight(r))
          => /\ ev_set'[r]
             /\ HasCancelEvent(c)' => ev_set'[user_data'[c].cancel_event]]_vars

\* C15 (per-item failure isolation): a run whose token was never set ends
\* process_lots_parallel with every submitted item processed and collected,
\* completed equal to the number of items, and each item counted once, as a
\* success (its record is in output_data) or as an error.
C15_FailureIsolation ==
    (pp_pc[1] \in {"export", "cleanup", "returned"} /\ ~ev_set[1])
    => LET n == Len(tasks[1])
           failed == {i \in 1 .. n : tasks[1][i].status = "error"}
           succeeded == {i \in 1 .. n : tasks[1][i].status = "success"}
       IN /\ \A i \in 1 .. n : tasks[1][i].pc = "done"
          /\ completed[1] = n
          /\ error_count[1] = Cardinality(failed)
          /\ success_count[1] = Cardinality(succeeded)
          /\ Len(output_data[1]) = Cardinality(succeeded)
          /\ failed \cup succeeded = 1 .. n

\* A run of two items, one of which failed, that reached its export.
C15_OneFailedOneExported ==
    /\ pp_pc[1] = "export"
    /\ ~ev_set[1]
    /\ error_count[1] = 1
    /\ success_count[1] = 1

\* C16 (sentinel on fetch failure): when a worker leaves build_json_for_lot
\* with no cancellation observed and no exception, the item ends as a
\* success with one record, whose summary and description of every locale
\* whose fetch failed are the placeholder "1"; the collecting loop counts
\* that item as a success and appends the record to the batch.
C16_SentinelOnFetchFailure ==
    [][\A i \in 1 .. Len(tasks[1]) :
          LET t == tasks[1][i]
              u == tasks'[1][i]
          IN /\ ((Sleep(1, i, FALSE) \/ HitStats(1, i, FALSE)) /\ t.loc = "en" /\ ~Cancelled(1))
                => /\ u.pc = "done"
                   /\ u.status = "success"
                   /\ Len(u.result) = 1
                   /\ u.page_ru = "none"
                      => u.result[1].summary_ru = "1" /\ u.result[1].desc_ru = "1"
                   /\ u.page_en = "none"
                      => u.result[1].summary_en = "1" /\ u.result[1].desc_en = "1"
             /\ (Collect(1, i) /\ ~Cancelled(1) /\ t.status = "success")
                => /\ success_count'[1] = success_count[1] + 1
                   /\ error_count'[1] = error_count[1]
                   /\ output_data'[1] = Append(output_data[1], t.result[1])]_vars

\* An item whose Russian fetch failed and whose English fetch succeeded has
\* been collected as a success.
C16_HalfFetchedCollected ==
    \E i \in yielded[1] :
       /\ tasks[1][i].page_ru = "none"
       /\ tasks[1][i].page_en = "page"
       /\ tasks[1][i].status = "success"
       /\ \E k \in 1 .. Len(output_data[1]) :
             /\ output_data[1][k].lot_id = tasks[1][i].lot
             /\ output_data[1][k].summary_ru = "1"

\* C17 (re-processing hits the cache), as stated: once a first run over a
\* set of items has exported them all with every fetch succeeding, a second
\* run over the same items, all of whose lookups happen less than
\* LOCALE_CACHE_TTL after the first run began, never fetches and never
\* sleeps, and has counted one hit per item and locale when it ends.
C17_RerunAlwaysHits ==
    (exported[1] # <<>> /\ now < LOCALE_CACHE_TTL)
    => /\ \A i \in 1 .. Len(tasks[2]) :
             tasks[2][i].pc \notin {"fetch", "insert", "cleanup", "miss_stats", "sleep"}
       /\ pp_pc[2] = "export"
          => \A l \in Locales : cache_hit_stats[l] = Len(exported[1][1])

\* C17, amended: the same, provided the first run began on an empty cache
\* and left at most CACHE_CLEANUP_THRESHOLD entries in it, so that its
\* closing cleanup removed nothing.
C17_RerunHitsWhenNothingEvicted ==
    LET n == Len(exported[1][1])
    IN (exported[1] # <<>> /\ 2 * n <= CACHE_CLEANUP_THRESHOLD /\ now < LOCALE_CACHE_TTL)
       => /\ \A i \in 1 .. Len(tasks[2]) :
                tasks[2][i].pc \in {"pending", "lookup", "hit_stats", "done"}
          /\ pp_pc[2] = "export"
             => /\ \A l \in Locales : cache_hit_stats[l] = n /\ cache_miss_stats[l] = n
                /\ Len(output_data[2]) = n
                /\ Len(locale_cache) = 2 * n

\* The second run over two items has ended within the window with four hits.
C17_SecondRunOfTwoEnded ==
    /\ pp_pc[2] = "export"
    /\ now < LOCALE_CACHE_TTL
    /\ Len(output_data[2]) = 2
    /\ \A l \in Locales : cache_hit_stats[l] = 2

\* hit_rate of cmd_stats (lines 712-715), in whole percent.
HitRate(hits, misses) ==
    IF hits + misses > 0 THEN (hits * 100) \div (hits + misses) ELSE 0

\* C18 (first run): when a first run over n items on an empty cache, every
\* fetch succeeding and its token never set, reaches its export, the batch
\* it sends holds exactly n records, the cache holds at most 2n entries, and
\* n misses and no hit have been counted for each locale (hit rate 0).
C18_FirstRun ==
    [][(Export(1) /\ ~ev_set[1])
       => LET n == Len(tasks[1])
          IN /\ n >= 1
             /\ exported'[1] = <<output_data[1]>>
             /\ Len(output_data[1]) = n
             /\ Len(locale_cache) <= 2 * n
             /\ \A l \in Locales : cache_miss_stats[l] = n /\ cache_hit_stats[l] = 0
             /\ HitRate(cache_hit_stats["ru"] + cache_hit_stats["en"],
                        cache_miss_stats["ru"] + cache_miss_stats["en"]) = 0]_vars

\* A first run of NumLots items has sent its batch after 2 * NumLots misses.
C18_FirstRunOfThreeExported ==
    /\ pp_pc[2] = "none"
    /\ pp_pc[1] \in {"cleanup", "returned"}
    /\ exported[1] # <<>>
    /\ Len(exported[1][1]) = NumLots
    /\ \A l \in Locales : cache_miss_stats[l] = NumLots /\ cache_hit_stats[l] = 0

\* C19 (invalid input): when handle_text gets, from a caller in
\* STATE_WAIT_LINK, a text that yields no owner id, the caller is sent the
\* error notice and has no user_data entry afterwards (so is not in
\* STATE_PROCESSING), and no run is submitted: no future, no process_profile
\* and no active_tasks entry is created.
C19_InvalidInput ==
    [][\A c \in Chats :
          (c \in DOMAIN user_data /\ user_data[c].step = STATE_WAIT_LINK
             /\ HandleText(c, FALSE, 1))
          => /\ "bad_link" \in notices'[c]
             /\ c \notin DOMAIN user_data'
             /\ ~Processing(c)'
             /\ UNCHANGED <<run_chat, fut, pp_pc, ht_pc, active_tasks, tasks>>]_vars

\* A caller whose only text was a bad link: notified, without an entry, and
\* no run was ever submitted.
C19_BadLinkOnly ==
    \E c \in Chats :
       /\ "bad_link" \in notices[c]
       /\ c \notin DOMAIN user_data
       /\ \A r \in Runs : run_chat[r] = 0 /\ fut[r] = "none"

\* C20 (empty owner): once a process_profile has returned and its caller has
\* been sent the no-items notice, the run's cleanup_callback, which pops the
\* caller's entries of both dicts, eventually runs.
C20_EmptyOwnerResets ==
    \A r \in Runs :
       (pp_pc[r] = "returned" /\ "no_lots" \in notices[run_chat[r]] /\ cb_pc[r] # "done")
       ~> (cb_pc[r] = "done")

\* C21 (rendering failures are swallowed): a run that got a non-empty list
\* of lots returns only after process_lots_parallel has handed its records
\* to process_profile, whatever message failed to be sent; it is never left
\* through an exception of process_lots_parallel.
C21_RenderingFailuresSwallowed ==
    [][\A r \in Runs :
          (lots[r] # <<>> /\ pp_pc[r] # "returned" /\ pp_pc'[r] = "returned")
          => pp_pc[r] \in {"export", "cleanup"}]_vars

\* C22 (cancel while awaiting input): a cmd_cancel for a caller whose
\* user_data entry is in STATE_WAIT_LINK removes that entry and changes
\* nothing else: no token is set, no future is cancelled, no run and no
\* active_tasks entry changes, and the cache and its counters stay as they
\* are.
C22_CancelWhileAwaiting ==
    [][\A c \in Chats :
          (CmdCancel(c) /\ c \in DOMAIN user_data /\ user_data[c].step = STATE_WAIT_LINK)
          => /\ user_data' = Pop(user_data, c)
             /\ UNCHANGED <<ev_set, active_tasks, runVars, cacheVars, lockVars, poolVars,
                            loopVars>>]_vars

\* No worker of the inner pool has been started and the run has not ended.
NoWorkerYet == tasks[1] = <<>> /\ pp_pc[1] # "returned"

\* C23 (statistics are additive): no step but the second block of
\* cmd_clear_cache makes a hit or miss counter smaller; cmd_clear_cache
\* empties the cache, remembering the size it had, then sets every counter
\* to 0 and reports the remembered size; when no worker has run by then, the
\* cache is still empty when it returns.
C23_StatisticsAdditive ==
    [][/\ (\A c \in Chats : ~ClearStats(c))
          => \A l \in Locales : /\ cache_hit_stats'[l] >= cache_hit_stats[l]
                                /\ cache_miss_stats'[l] >= cache_miss_stats[l]
       /\ \A c \in Chats :
             /\ ClearCache(c)
                => /\ Len(locale_cache') = 0
                   /\ clear_cmd'[c].cache_size_before = Len(locale_cache)
             /\ ClearStats(c)
                => /\ \A l \in Locales : cache_hit_stats'[l] = 0 /\ cache_miss_stats'[l] = 0
                   /\ clear_cmd'[c].reported = clear_cmd[c].cache_size_before
                   /\ NoWorkerYet => Len(locale_cache') = 0]_vars

\* A cmd_clear_cache that found CACHE_CLEANUP_THRESHOLD entries has returned
\* before any worker ran: it reported that size, and the cache and every
\* counter are empty.
C23_ClearedWarmCache ==
    \E c \in Chats :
       /\ clear_cmd[c].pc = "none"
       /\ clear_cmd[c].reported = CACHE_CLEANUP_THRESHOLD
       /\ NoWorkerYet
       /\ Len(locale_cache) = 0
       /\ \A l \in Locales : cache_hit_stats[l] = 0 /\ cache_miss_stats[l] = 0

\* The calls of get_cached_locale_data for the given key that have missed
\* and have not yet written their page.
Fetching(key) ==
    {<<r, i>> \in Runs \X (1 .. NumLots) :
        /\ i <= Len(tasks[r])
        /\ tasks[r][i].pc \in {"fetch", "insert"}
        /\ CacheKey(tasks[r][i].lot, tasks[r][i].loc) = key}

Discarded(t) ==
    \/ t.pc = "cancelled"
    \/ t.pc = "done" /\ t.status = "canceled" /\ t.page_ru = "unset"

\* Task t has fetched nothing, has written nothing into the given cache and
\* has no record in the given batch.
LeftNoTrace(t, cache, batch) ==
    /\ t.page_ru = "unset" /\ t.page_en = "unset"
    /\ t.result = <<>>
    /\ \A l \in Locales : CacheIndex(cache, CacheKey(t.lot, l)) = 0
    /\ \A k \in 1 .. Len(batch) : batch[k].lot_id # t.lot

\* C25 (unstarted tasks are discarded on cancellation): a task that is still
\* queued when the token of its run is set is next either cancelled in the
\* queue or ended at the entry of process_lot; from then on it does not
\* change, and it never fetches, never writes the cache and never gets a
\* record into the batch.
C25_UnstartedDiscarded ==
    [][\A i \in 1 .. Len(tasks[1]) :
          LET t == tasks[1][i]
              done == Len(tasks'[1]) = 0
              u == tasks'[1][i]
          IN /\ (t.pc = "pending" /\ cancel_event[1] /\ ev_set[1] /\ ~done)
                => /\ u.pc = "pending" \/ Discarded(u)
                   /\ LeftNoTrace(u, locale_cache', output_data'[1])
             /\ (Discarded(t) /\ ~done)
                => /\ u = t
                   /\ LeftNoTrace(u, locale_cache', output_data'[1])
             /\ (Discarded(t) /\ exported'[1] # <<>>)
                => \A k \in 1 .. Len(exported'[1][1]) : exported'[1][1][k].lot_id # t.lot]_vars

\* A cancelled run still has a future that was cancelled in the queue while
\* the record of another item is in the batch.
C25_CancelledInQueue ==
    /\ cancel_event[1] /\ ev_set[1]
    /\ output_data[1] # <<>>
    /\ \E i \in 1 .. Len(tasks[1]) : tasks[1][i].pc = "cancelled"

\* The worker of lot i of run r is at a check of the token in this step: on
\* entry of process_lot, or after a lookup of build_json_for_lot.
AtCheckPoint(r, i) ==
    \/ StartTask(r, i)
    \/ \E raises \in BOOLEAN : HitStats(r, i, raises) \/ Sleep(r, i, raises)

\* C26 (cancellation check points): a worker that finds the token set at the
\* entry of process_lot, after the 'ru' lookup or after the 'en' lookup ends
\* reported as canceled and without a record; found set on entry, nothing
\* is looked up, and found set after the 'ru' lookup, the 'en' variant is
\* never looked up or fetched.
C26_CheckPoints ==
    [][\A i \in 1 .. Len(tasks[1]) :
          LET t == tasks[1][i]
              u == tasks'[1][i]
          IN (AtCheckPoint(1, i) /\ cancel_event[1] /\ ev_set[1])
             => /\ u.pc = "done"
                /\ u.status = "canceled"
                /\ u.result = <<>>
                /\ [status |-> "canceled", lot_id |-> t.lot] \in progress_queue'[1]
                /\ t.pc = "pending" => u.page_ru = "unset" /\ u.page_en = "unset"
                /\ t.loc = "ru" => u.page_en = "unset"]_vars

\* A worker that found the token set after its 'ru' lookup had returned a
\* page: it ended as canceled without an 'en' page.
C26_StoppedAfterPrimary ==
    /\ cancel_event[1] /\ ev_set[1]
    /\ \E i \in 1 .. Len(tasks[1]) :
          /\ tasks[1][i].pc = "done"
          /\ tasks[1][i].status = "canceled"
          /\ tasks[1][i].page_ru = "page"
          /\ tasks[1][i].page_en = "unset"

\* The items of run 1 whose processing ended as canceled or whose future was
\* cancelled in the queue.
CancelledItems ==
    {i \in 1 .. Len(tasks[1]) :
        tasks[1][i].pc = "cancelled" \/ tasks[1][i].status = "canceled"}

C28_DelayPlacement ==
    [][\A i \in 1 .. Len(tasks[1]) :
          LET t == tasks[1][i]
              u == tasks'[1][i]
          IN /\ (\E raises \in BOOLEAN : HitStats(1, i, raises)) => u.pc # "sleep"
             /\ MissStats(1, i) => u.pc = "sleep"
             /\ (t.pc # "sleep" /\ Len(tasks'[1]) # 0 /\ u.pc = "sleep")
                => t.pc = "miss_stats"
             /\ (t.pc = "sleep" /\ Len(tasks'[1]) # 0 /\ u.pc = "lookup")
                => t.loc = "ru" /\ u.loc = "en"]_vars

\* One worker is in its delay after a miss while a hit has been counted for
\* another lookup of the run.
C28_DelayAfterMissOnly ==
    /\ \E i \in 1 .. Len(tasks[1]) : tasks[1][i].pc = "sleep"
    /\ cache_hit_stats["ru"] + cache_hit_stats["en"] >= 1

\* The page task t holds for the locale it is working on.
PageOf(t) == IF t.loc = "ru" THEN t.page_ru ELSE t.page_en

\* C29 (no retry): a worker calls the remote fetch for a locale only when it
\* has no outcome for that locale yet, and the call, whether it returns a
\* page or fails, gives it one and takes it on to the statistics; each
\* locale is looked up once, 'ru' then 'en', so that an invocation fetches at
\* most twice.
C29_NoRetry ==
    [][\A i \in 1 .. Len(tasks[1]) :
          LET t == tasks[1][i]
              u == tasks'[1][i]
          IN /\ (\E ok \in BOOLEAN : Fetch(1, i, ok))
                => /\ PageOf(t) = "unset"
                   /\ PageOf(u) \in {"page", "none"}
                   /\ u.loc = t.loc
                   /\ u.pc \in {"insert", "miss_stats"}
             /\ (Len(tasks'[1]) # 0 /\ u.pc = "fetch")
                => t.pc \in {"fetch", "lookup"} /\ u.loc = t.loc /\ PageOf(u) = "unset"
             /\ (Len(tasks'[1]) # 0 /\ u.pc = "lookup" /\ t.pc # "lookup")
                => \/ t.pc = "pending" /\ u.loc = "ru"
                   \/ t.loc = "ru" /\ u.loc = "en" /\ t.page_ru # "unset"]_vars

\* An item both of whose fetches failed has ended, as a success.
C29_BothFetchesFailedOnce ==
    \E i \in 1 .. Len(tasks[1]) :
       /\ tasks[1][i].pc = "done"
       /\ tasks[1][i].status = "success"
       /\ tasks[1][i].page_ru = "none"
       /\ tasks[1][i].page_en = "none"

\* C30: a cleanup_cache() without force leaves the cache as it was whenever
\* it holds at most CACHE_CLEANUP_THRESHOLD entries; otherwise the number of
\* entries it removes is max(0, size - (MAX_CACHE_SIZE -
\* CACHE_CLEANUP_THRESHOLD)), which is never negative.  The same holds of the
\* cleanup of every prefix of the dict, so that the sizes around the
\* threshold are covered.
C30_CleanupThreshold ==
    [][\A th \in CleanupCallers :
          CleanupCache(th) =>
             LET size == Len(locale_cache)
                 removed == size - Len(locale_cache')
             IN /\ size <= CACHE_CLEANUP_THRESHOLD => locale_cache' = locale_cache
                /\ size > CACHE_CLEANUP_THRESHOLD =>
                      removed = Max(0, size - (MAX_CACHE_SIZE - CACHE_CLEANUP_THRESHOLD))
                /\ removed >= 0
                /\ \A k \in 0 .. size :
                      LET part == SubSeq(locale_cache, 1, k)
                          rest == CleanedCache(part, FALSE)
                      IN IF k <= CACHE_CLEANUP_THRESHOLD
                         THEN rest = part
                         ELSE k - Len(rest) =
                                 Max(0, k - (MAX_CACHE_SIZE - CACHE_CLEANUP_THRESHOLD))]_vars

\* The run of a cold cache ended with the closing cleanup having trimmed the
\* MAX_CACHE_SIZE entries it found to the retained size, the cache never
\* having been cleared by hand.
C30_TrimmedToRetainedSize ==
    /\ pp_pc[1] = "returned"
    /\ Len(locale_cache) = MAX_CACHE_SIZE - CACHE_CLEANUP_THRESHOLD
    /\ \A c \in Callers : clear_cmd[c] = NoClear
    /\ \A l \in Locales : cache_miss_stats[l] = NumLots

\* C31 (input gating in Processing): a text that handle_text gets from a
\* caller whose entry is in STATE_PROCESSING, whether or not it holds an
\* owner id, launches no run and leaves user_data, active_tasks, the
\* cancellation token, the cache and the statistics as they were.
C31_InputGating ==
    [][\A c \in Chats : \A valid \in BOOLEAN : \A r \in Runs :
          (Processing(c) /\ HandleText(c, valid, r))
          => UNCHANGED <<user_data, active_tasks, run_chat, fut, pp_pc, ht_pc,
                         cancel_event, ev_set, cacheVars, notices>>]_vars

\* A caller in STATE_PROCESSING whose run is registered and fetching the
\* lots, while a further run could still be submitted.
C31_ProcessingWithFreeRun ==
    \E c \in Chats :
       /\ Processing(c)
       /\ c \in DOMAIN active_tasks
       /\ run_chat[1] = c /\ pp_pc[1] = "get_lots"
       /\ run_chat[2] = 0

\* Number of places of the sequence s that hold x.
Occurrences(s, x) == Cardinality({i \in 1 .. Len(s) : s[i] = x})

\* C32 (every item is submitted exactly once): for every listing that
\* get_lots returns, whatever its length, the submission list is a
\* permutation of the listing in ascending order of price, and one task per
\* place of that list is submitted, for the lot of that place.
C32_SubmittedExactlyOnce ==
    [][\A ls \in Listings :
          (ls # <<>> /\ PPGetLots(1, ls, TRUE))
          => /\ Len(lots'[1]) = Len(ls)
             /\ \A x \in LotIds : Occurrences(lots'[1], x) = Occurrences(ls, x)
             /\ \A i, j \in 1 .. Len(lots'[1]) :
                   i < j => LotPrice(lots'[1][i]) <= LotPrice(lots'[1][j])
             /\ Len(tasks'[1]) = Len(ls)
             /\ \A i \in 1 .. Len(tasks'[1]) :
                   tasks'[1][i].lot = lots'[1][i] /\ tasks'[1][i].pc = "pending"]_vars

\* A listing of NumLots lots, which is not a multiple of BATCH_SIZE, was
\* reordered for submission and every one of its lots has been collected.
C32_OddListingCollected ==
    /\ Len(lots[1]) = NumLots
    /\ NumLots % BATCH_SIZE # 0
    /\ lots[1] # Profile(NumLots)
    /\ pp_pc[1] = "export"
    /\ Len(output_data[1]) = NumLots

\* C33 (progress tick rate): at the end of an iteration that counted an
\* item, the loop edits the progress message only if at least
\* PROGRESS_UPDATE_INTERVAL has passed since the last update that went
\* through or the item is the last one, and it always does so for the last
\* one; the update shows the new count, and a remaining time exactly when
\* 0 < completed < total_lots; last_update_time moves only with an edit that
\* went through.
C33_ProgressTickRate ==
    [][\A i \in 1 .. NumLots :
          (Collect(1, i) /\ completed'[1] = completed[1] + 1)
          => LET total == Len(tasks[1])
                 final == completed'[1] = total
                 due == now - last_update_time[1] >= PROGRESS_UPDATE_INTERVAL
                 sent == progress_update'[1] # progress_update[1]
             IN /\ sent => (due \/ final)
                /\ final => sent
                /\ sent => /\ progress_update'[1].completed = completed'[1]
                           /\ progress_update'[1].remaining
                                 <=> (0 < completed'[1] /\ completed'[1] < total)
                /\ last_update_time'[1] =
                      IF sent /\ progress_update'[1].ok THEN now ELSE last_update_time[1]]_vars

\* The loop has counted the first of two items after the clock had advanced
\* and its update, with a remaining time, went through.
C33_UpdateAfterInterval ==
    /\ pp_pc[1] = "collect"
    /\ Len(tasks[1]) = 2
    /\ completed[1] = 1
    /\ progress_update[1] = [completed |-> 1, remaining |-> TRUE, ok |-> TRUE]
    /\ last_update_time[1] = now
    /\ now >= PROGRESS_UPDATE_INTERVAL

\* The get_cached_locale_data of task i of run 1 returns in this step.
CallReturns(i) ==
    /\ i \in 1 .. Len(tasks[1])
    /\ tasks[1][i].pc \in {"hit_stats", "miss_stats"}
    /\ tasks'[1][i].pc \notin {"hit_stats", "miss_stats"}

\* C34 (statistics under cancellation): the return of a
\* get_cached_locale_data adds one to exactly one counter, the hit counter
\* of the call's locale when the value comes from the cache (the call is
\* still inside the lookup's lock), its miss counter otherwise, a failed
\* fetch included; and no counter changes in any other step, whether or not
\* the token is set.
C34_StatsUnderCancellation ==
    [][/\ \A i \in 1 .. NumLots :
             CallReturns(i)
             => LET locale == tasks[1][i].loc
                    from_cache == locale_cache_lock = W(1, i)
                IN /\ cache_hit_stats' =
                         [cache_hit_stats EXCEPT ![locale] = IF from_cache THEN @ + 1 ELSE @]
                   /\ cache_miss_stats' =
                         [cache_miss_stats EXCEPT ![locale] = IF from_cache THEN @ ELSE @ + 1]
       /\ (cache_hit_stats' # cache_hit_stats \/ cache_miss_stats' # cache_miss_stats)
          => \E i \in 1 .. NumLots : CallReturns(i)]_vars

\* A cancelled run in which a call whose fetch failed has returned, counted
\* as a miss, to a task that then ended as canceled.
C34_CancelledAfterFailedFetch ==
    /\ cancel_event[1] /\ ev_set[1]
    /\ locale_cache = <<>>
    /\ cache_miss_stats["ru"] = 1
    /\ \E i \in 1 .. Len(tasks[1]) :
          tasks[1][i].status = "canceled" /\ tasks[1][i].page_ru = "none"

\* The page the task has for the given locale ("unset" before the call).
PageFor(t, locale) == IF locale = "ru" THEN t.page_ru ELSE t.page_en

\* C35 (failed fetches are never cached): an entry of locale_cache is made
\* or refreshed only by the insert of a call whose fetch returned a page,
\* for that call's key; a fetch that fails leaves the cache as it was; and
\* the lookup of a key by one run, when another run's fetch of that key has
\* failed and no call has stored the key, is a miss and goes on to a remote
\* fetch of its own.
C35_FailedFetchNotCached ==
    [][/\ \A k \in 1 .. Len(locale_cache') :
             (k > Len(locale_cache) \/ locale_cache'[k] # locale_cache[k])
             => \E r \in Runs :
                   /\ Insert(r, 1)
                   /\ PageOf(tasks[r][1]) = "page"
                   /\ locale_cache'[k].key = CacheKey(tasks[r][1].lot, tasks[r][1].loc)
       /\ \A r \in Runs : Fetch(r, 1, FALSE) => locale_cache' = locale_cache
       /\ \A r, q \in Runs :
             (/\ r # q
              /\ Lookup(r, 1)
              /\ tasks[q] # <<>>
              /\ tasks[q][1].lot = tasks[r][1].lot
              /\ PageFor(tasks[q][1], tasks[r][1].loc) = "none"
              /\ CacheIndex(locale_cache, CacheKey(tasks[r][1].lot, tasks[r][1].loc)) = 0)
             => tasks'[r][1].pc = "fetch" /\ locale_cache_lock' = NoThread]_vars

\* The fetch of a key by one run has failed and been counted, the cache
\* holds nothing, and the other run is about to fetch the same key.
C35_RefetchAfterFailure ==
    \E r, q \in Runs :
       /\ r # q
       /\ tasks[q] # <<>> /\ tasks[r] # <<>>
       /\ tasks[q][1].page_ru = "none" /\ tasks[q][1].pc = "sleep" /\ tasks[q][1].loc = "ru"
       /\ tasks[r][1].lot = tasks[q][1].lot
       /\ tasks[r][1].pc = "fetch" /\ tasks[r][1].loc = "ru"
       /\ locale_cache = <<>>
       /\ cache_miss_stats["ru"] = 1

\* C36 (lock progress), in its finite form: no call of
\* get_cached_locale_data waits for a lock that cannot be released to it.
\* The call whose insert brought the cache above MAX_CACHE_SIZE waits
\* inside cleanup_cache for locale_cache_lock; only the owner of a lock
\* releases it, so the wait ends only if the owner is another thread.
C36_LockProgress ==
    \A r \in Runs : \A i \in 1 .. Len(tasks[r]) :
       tasks[r][i].pc = "cleanup" => locale_cache_lock # W(r, i)

\* C37 (progress accounting): while process_lots_parallel collects, and
\* after its loop, completed = success_count + error_count and
\* success_count = len(output_data); once the loop of a run whose token was
\* never set has ended, completed is the number of submitted items.
C37_ProgressAccounting ==
    \A r \in Runs :
       /\ completed[r] = success_count[r] + error_count[r]
       /\ success_count[r] = Len(output_data[r])
       /\ completed[r] = Cardinality(yielded[r])
       /\ (pp_pc[r] \in {"shutdown", "export"} /\ ~Cancelled(r))
          => completed[r] = Len(tasks[r])

\* The loop of a run of two items whose token was never set has ended: one
\* item was counted as a success and one as an error.
C37_CountedOneOfEach ==
    /\ pp_pc[1] = "shutdown"
    /\ ~Cancelled(1)
    /\ Len(tasks[1]) = 2
    /\ completed[1] = 2
    /\ success_count[1] = 1 /\ error_count[1] = 1
    /\ Len(output_data[1]) = 1

\* The user's cache_foreign_lots is executing its export.
Exporting(u) == handlers[u].name = "cache_foreign_lots" /\ handlers[u].pc = "try"

\* C38 (export runs are mutually exclusive): at most one cache_foreign_lots
\* is executing its export at any time, whatever commands and profile
\* inputs the users send.
C38_ExportsExclusive == Cardinality({u \in Callers : Exporting(u)}) <= 1

\* C39 (RUNNING is always released): RUNNING is set only while a handler
\* that set it is inside its try block; once every such handler has left the
\* block, by its end, by an early return or by an exception, RUNNING is
\* False, so no later command is refused because of a finished operation.
C39_RunningReleased ==
    [][/\ RUNNING' => \E u \in Callers : handlers'[u].pc = "try"
       /\ \A u \in Callers :
             (handlers[u].pc = "try" /\ handlers'[u].pc # "try"
                /\ \A v \in Callers \ {u} : handlers[v].pc # "try")
             => ~RUNNING']_vars

\* A copy_lots has ended by an exception, no handler is running, and the
\* flag is clear.
C39_FailedAndReleased ==
    /\ \E u \in Callers : handlers[u] = [name |-> "copy_lots", pc |-> "idle", outcome |-> "failed"]
    /\ \A u \in Callers : handlers[u].pc = "idle"
    /\ ~RUNNING

\* C40 (account locale is restored): once every worker of the run has
\* finished, whatever the interleaving of their calls of
\* get_cached_locale_data was, acc.locale is what it was before the run.
C40_LocaleRestored ==
    pp_pc[1] \in {"export", "cleanup", "returned"} => acc_locale = AccountLocale

====
